---------------------------- MODULE Spec2Model ----------------------------
(***************************************************************************)
(* Model of the ingestion pipeline of python-email-automation-processor:  *)
(* the day-bucketed ledger of processed UIDs (load_processed_for_day,      *)
(* save_processed_uid_for_day, cleanup_old_processed_days) and the         *)
(* orchestrator EmailProcessor.process / _process_email that drives the    *)
(* IMAP session message by message.                                        *)
(*                                                                         *)
(* Text is modelled as a sequence of one-character strings, so that        *)
(* str.strip() is a real operation.  Calendar days are indices into ISO,   *)
(* the table of "%Y-%m-%d" names; a bucket name is a TLA+ string.          *)
(***************************************************************************)
EXTENDS Integers, Sequences, FiniteSets, TLC

\* ------------------------------------------------------------------ bounds
\* Last calendar day (index) the clock may reach.
MaxDay == 2
\* Largest number of messages in the mailbox.
MaxMsgs == 2
\* Largest number of attachment parts in one message body.
MaxParts == 2
\* Largest max_retries imap_connect is called with on its own.
MaxRetries == 3
\* Largest number of saves into the target folder.
MaxSaves == 4

\* ------------------------------------------------------------ text helpers
Range(s) == {s[i] : i \in 1..Len(s)}

IsSpace(c) == c \in {" ", "\t", "\n"}

RECURSIVE LStrip(_)
LStrip(s) ==
    IF s # <<>> /\ IsSpace(Head(s)) THEN LStrip(Tail(s)) ELSE s

RECURSIVE RStrip(_)
RStrip(s) ==
    IF s # <<>> /\ IsSpace(s[Len(s)]) THEN RStrip(SubSeq(s, 1, Len(s) - 1)) ELSE s

\* str.strip()
Strip(s) == RStrip(LStrip(s))

\* -------------------------------------------------------------- calendar
\* datetime.strftime("%Y-%m-%d") of the day with index d (d = 0 is ISO[1]).
ISO == << "2024-01-01", "2024-01-02", "2024-01-03", "2024-01-04",
          "2024-01-05", "2024-01-06", "2024-01-07", "2024-01-08" >>

NoDay == -1

strftime(d) == ISO[d + 1]

\* datetime.strptime(base, "%Y-%m-%d"): the day index, NoDay for ValueError.
strptime(base) ==
    IF \E i \in 1..Len(ISO) : ISO[i] = base
    THEN (CHOOSE i \in 1..Len(ISO) : ISO[i] = base) - 1
    ELSE NoDay

Days == 0..MaxDay

\* day_str = dt.strftime("%Y-%m-%d") if dt else "nodate"
DayStr(dt) == IF dt = NoDay THEN "nodate" ELSE strftime(dt)

\* Names a store of the ledger directory can have ("<name>.txt").
BucketNames == {strftime(d) : d \in Days} \cup {"nodate"}

\* --------------------------------------------------------------- ledger
\* The ledger directory is a function from the names of the existing stores
\* to their lines (each line a text without its newline).

\* {line.strip() for line in f if line.strip()}
ReadLines(lines) == {Strip(l) : l \in Range(lines)} \ {<<>>}

\* Mutant of load_processed_for_day: the store is never read, the set of a
\* bucket lives in the cache of the run only.
load_processed_for_day_cache_only(fs, day_str, c, fault) ==
    IF day_str \in DOMAIN c
    THEN [ok |-> TRUE, uids |-> c[day_str], cache |-> c, read |-> FALSE]
    ELSE [ok |-> TRUE, uids |-> {}, cache |-> c @@ (day_str :> {}), read |-> FALSE]

\* Mutant of load_processed_for_day: no "if day_str in cache", the store is
\* read on every call.
load_processed_for_day_every_time(fs, day_str, c, fault) ==
    LET uids == IF day_str \in DOMAIN fs THEN ReadLines(fs[day_str]) ELSE {} IN
    IF fault
    THEN [ok |-> FALSE, uids |-> {}, cache |-> c, read |-> FALSE]
    ELSE [ok |-> TRUE, uids |-> uids,
          cache |-> [b \in DOMAIN c \cup {day_str} |-> IF b = day_str THEN uids ELSE c[b]],
          read |-> day_str \in DOMAIN fs]

\* load_processed_for_day: result [ok, uids, cache, read]; fault = an OSError
\* of the I/O the call performs (none is performed on a cache hit); read
\* tells whether the lines of the store were read.
load_processed_for_day(fs, day_str, c, fault) ==
    IF day_str \in DOMAIN c
    THEN [ok |-> TRUE, uids |-> c[day_str], cache |-> c, read |-> FALSE]
    ELSE IF fault
    THEN [ok |-> FALSE, uids |-> {}, cache |-> c, read |-> FALSE]
    ELSE IF day_str \notin DOMAIN fs
    THEN [ok |-> TRUE, uids |-> {}, cache |-> c @@ (day_str :> {}), read |-> FALSE]
    ELSE [ok |-> TRUE, uids |-> ReadLines(fs[day_str]),
          cache |-> c @@ (day_str :> ReadLines(fs[day_str])), read |-> TRUE]

\* Mutant of AppendLine: the line never reaches the store.
AppendLine_lost(fs, day_str, uid) == fs

\* f.write(uid + "\n") on a store opened for append.
AppendLine(fs, day_str, uid) ==
    IF day_str \in DOMAIN fs
    THEN [fs EXCEPT ![day_str] = Append(@, uid)]
    ELSE fs @@ (day_str :> <<uid>>)

\* Mutant of save_processed_uid_for_day: no "if uid in uids: return".
save_always_appends(fs, day_str, uid, c, rfault, wfault) ==
    LET l == load_processed_for_day(fs, day_str, c, rfault) IN
    IF ~l.ok
    THEN [ok |-> FALSE, fs |-> fs, cache |-> c, read |-> l.read]
    ELSE IF wfault
    THEN [ok |-> FALSE, fs |-> fs, cache |-> l.cache, read |-> l.read]
    ELSE [ok |-> TRUE,
          fs |-> IF day_str \in DOMAIN fs
                 THEN [fs EXCEPT ![day_str] = Append(@, uid)]
                 ELSE fs @@ (day_str :> <<uid>>),
          cache |-> [l.cache EXCEPT ![day_str] = @ \cup {uid}], read |-> l.read]

\* Mutant of save_processed_uid_for_day: the identifier joins the cached set
\* before the append.
save_caches_before_append(fs, day_str, uid, c, rfault, wfault) ==
    LET l == load_processed_for_day(fs, day_str, c, rfault) IN
    IF ~l.ok
    THEN [ok |-> FALSE, fs |-> fs, cache |-> c, read |-> l.read]
    ELSE IF uid \in l.uids
    THEN [ok |-> TRUE, fs |-> fs, cache |-> l.cache, read |-> l.read]
    ELSE IF wfault
    THEN [ok |-> FALSE, fs |-> fs,
          cache |-> [l.cache EXCEPT ![day_str] = @ \cup {uid}], read |-> l.read]
    ELSE [ok |-> TRUE, fs |-> AppendLine(fs, day_str, uid),
          cache |-> [l.cache EXCEPT ![day_str] = @ \cup {uid}], read |-> l.read]

\* save_processed_uid_for_day: result [ok, fs, cache, read]; rfault fails the
\* read of the load, wfault fails the append.
save_processed_uid_for_day(fs, day_str, uid, c, rfault, wfault) ==
    LET l == load_processed_for_day(fs, day_str, c, rfault) IN
    IF ~l.ok
    THEN [ok |-> FALSE, fs |-> fs, cache |-> c, read |-> l.read]
    ELSE IF uid \in l.uids
    THEN [ok |-> TRUE, fs |-> fs, cache |-> l.cache, read |-> l.read]
    ELSE IF wfault
    THEN [ok |-> FALSE, fs |-> fs, cache |-> l.cache, read |-> l.read]
    ELSE [ok |-> TRUE, fs |-> AppendLine(fs, day_str, uid),
          cache |-> [l.cache EXCEPT ![day_str] = @ \cup {uid}], read |-> l.read]

\* Mutant of Expired: the store dated exactly today - keep_days goes too.
Expired_inclusive(fs, keep_days, now) ==
    IF keep_days <= 0
    THEN {}
    ELSE {n \in DOMAIN fs : strptime(n) # NoDay /\ strptime(n) <= now - keep_days}

\* The stores cleanup_old_processed_days tries to remove.
Expired(fs, keep_days, now) ==
    IF keep_days <= 0
    THEN {}
    ELSE {n \in DOMAIN fs : strptime(n) # NoDay /\ strptime(n) < now - keep_days}

\* cleanup_old_processed_days; undeletable = the stores whose os.remove fails.
cleanup_old_processed_days(fs, keep_days, now, undeletable) ==
    LET gone == Expired(fs, keep_days, now) \ undeletable IN
    [n \in DOMAIN fs \ gone |-> fs[n]]

\* The (identifier, bucket) pairs a directory durably holds.
LedgerPairs(fs) ==
    UNION {{<<u, b>> : u \in ReadLines(fs[b])} : b \in DOMAIN fs}

\* ------------------------------------------------------------ configuration
Lower(c) ==
    CASE c = "B" -> "b"
      [] c = "I" -> "i"
      [] c = "N" -> "n"
      [] c = "U" -> "u"
      [] c = "X" -> "x"
      [] OTHER -> c

\* str.lower()
lower(s) == [i \in 1..Len(s) |-> Lower(s[i])]

\* config["allowed_senders"]
allowed_senders == {<<"b", "@", "x">>}

\* config["topic_mapping"]: ordered (pattern, folder) pairs; a pattern is a
\* literal text or ".*".
topic_mapping ==
    << [pattern |-> <<"i", "n", "v">>, folder |-> <<"i", "n", "v", "s">>],
       [pattern |-> <<"u", "p">>,      folder |-> <<"/", "e">>] >>

\* proc_cfg.get("start_days_back", 5)
start_days_back == 5

\* The configurations a processor is constructed with.
Configs ==
    [keep_processed_days : {0, 1},
     skip_non_allowed_as_processed : BOOLEAN,
     archive_only_mapped : BOOLEAN]

\* Mutant of in_allowed_lower: an empty allow-set allows every sender.
in_allowed_lower_empty_allows_all(sender, senders) ==
    senders = {} \/ lower(sender) \in {lower(s) : s \in senders}

\* allowed_lower = {s.lower() for s in allowed_senders};
\* sender.lower() in allowed_lower
in_allowed_lower(sender, senders) == lower(sender) \in {lower(s) : s \in senders}

\* Mutant of is_allowed_sender: no sender is rejected.
is_allowed_sender_allows_all(sender) == TRUE

\* EmailFilter.is_allowed_sender, with the allow-set of the configuration.
is_allowed_sender(sender) == in_allowed_lower(sender, allowed_senders)

\* re.search(pattern, subject, flags=re.IGNORECASE) for the pattern ".*" and
\* for a literal pattern.
Search(pattern, subject) ==
    \/ pattern = <<".", "*">>
    \/ \E i \in 1..(Len(subject) - Len(pattern) + 1) :
          lower(SubSeq(subject, i, i + Len(pattern) - 1)) = lower(pattern)

\* Mutant of resolve_custom_folder: the last matching pair wins.
resolve_custom_folder_last_match(subject, mapping) ==
    IF \E i \in 1..Len(mapping) : Search(mapping[i].pattern, subject)
    THEN mapping[CHOOSE i \in 1..Len(mapping) :
             /\ Search(mapping[i].pattern, subject)
             /\ \A j \in (i + 1)..Len(mapping) : ~Search(mapping[j].pattern, subject)].folder
    ELSE <<>>

\* resolve_custom_folder: the folder of the first matching pair, <<>> for None.
resolve_custom_folder(subject, mapping) ==
    IF \E i \in 1..Len(mapping) : Search(mapping[i].pattern, subject)
    THEN mapping[CHOOSE i \in 1..Len(mapping) :
             /\ Search(mapping[i].pattern, subject)
             /\ \A j \in 1..(i - 1) : ~Search(mapping[j].pattern, subject)].folder
    ELSE <<>>

\* EmailFilter.resolve_folder, with the mapping of the configuration.
resolve_folder(subject) == resolve_custom_folder(subject, topic_mapping)

Illegal(c) == c \in {"<", ">", ":", "\"", "/", "\\", "|", "?", "*", "\t", "\n"}

\* normalize_folder_name (at most 200 characters are kept; every name of the
\* model is shorter).
normalize_folder_name(name) ==
    LET t == Strip(name) IN [i \in 1..Len(t) |-> IF Illegal(t[i]) THEN "_" ELSE t[i]]

\* validate_path(download_dir.resolve(), (download_dir / name).resolve()):
\* ".." resolves to the parent of the download root, a name that begins with
\* "/" is an absolute path and replaces the root.
validate_path(name) ==
    /\ name # <<".", ".">>
    /\ (name = <<>> \/ Head(name) # "/")

\* ----------------------------------------------------------------- mailbox
\* The messages a mailbox can hold: UID, Date header (day, NoDay when absent
\* or unparseable), From address, Subject.
Catalog ==
    << [uid |-> <<"1">>, date |-> 0,     sender |-> <<"B", "@", "x">>, subject |-> <<"I", "n", "v">>],
       [uid |-> <<"2">>, date |-> 1,     sender |-> <<"b", "@", "x">>, subject |-> <<"N", "e", "w", "s">>],
       [uid |-> <<"3">>, date |-> NoDay, sender |-> <<"s", "@", "y">>, subject |-> <<"I", "n", "v">>],
       [uid |-> <<"4">>, date |-> 0,     sender |-> <<"b", "@", "x">>, subject |-> <<" ", ".", ".">>],
       [uid |-> <<"5">>, date |-> 1,     sender |-> <<"b", "@", "x">>, subject |-> <<"U", "p">>] >>

\* Mailboxes: at most MaxMsgs catalog messages, in catalog order.
Mailboxes ==
    {[i \in 1..Len(p) |-> Catalog[p[i]]] :
        p \in {q \in UNION {[1..n -> DOMAIN Catalog] : n \in 0..MaxMsgs} :
                  \A i, j \in DOMAIN q : i < j => q[i] < q[j]}}

\* ------------------------------------------------------------------- state
VARIABLES
    today,          \* datetime.now().date(), a day index
    cfg,            \* the configuration of the EmailProcessor
    files,          \* the ledger directory: store name -> lines
    mailbox,        \* INBOX on the server: messages by sequence number
    deleted,        \* UIDs of INBOX flagged \Deleted and not yet expunged
    pc,             \* position of the process ("idle": not running)
    dry_run,        \* the dry_run argument of the current process() call
    cache,          \* processed_cache of the current run
    todo,           \* sequence numbers still to iterate, in iteration order
    counts,         \* processed_count, skipped_count, error_count
    cur,            \* locals of _process_email for the current message
    ops,            \* operations issued for the current message, in order
    ret,            \* value _process_email returned ("" while it runs)
    result,         \* ProcessingResult of the last finished run
    recordedBefore, \* history: pairs some store held when an earlier run began
    ledgerAtStart,  \* history: pairs the ledger held after this run's sweep
    savedOK,        \* history (ledger calls): pairs saved without error, store not swept since
    call,           \* history (ledger calls): the last direct ledger call, the
                    \* stores read since the run started, and the pair whose
                    \* append failed last (lost) until it is saved
    session,        \* history: the session commands of the current run, in order
    mail,           \* the IMAP session of the run ("none": no session); kept after
                    \* the run as history until the next run starts
    found,          \* email_ids: the sequence numbers the search returned
    searched,       \* history: INBOX and its \Deleted flags as the search saw them
    visited,        \* history: the msg_id of every _process_email call of the run
    logouts,        \* history: the mail.logout() calls of the run, kept after it
    probe,          \* helper calls: the last call, its arguments and its result
    folder,         \* helper calls: the files of one target folder, name -> content
    crash           \* history: what the last termination of a run left behind

vars == << today, cfg, files, mailbox, deleted, pc, dry_run, cache, todo,
           counts, cur, ops, ret, result, recordedBefore, ledgerAtStart,
           savedOK, call, session, mail, found, searched, visited, logouts, probe,
           folder,
           crash >>

helperVars == << probe, folder, crash >>
ledgerHist == << savedOK, call, helperVars >>
sessionVars == << mail, found, searched, visited, logouts >>
runVars == << pc, dry_run, cache, todo, counts, cur, ops, ret, result, session,
              sessionVars >>
runVars_but_cache == << pc, dry_run, todo, counts, cur, ops, ret, result, session,
                        sessionVars >>

EmptyMap == [n \in {} |-> {}]

NoCur == [msg_id |-> 0, uid |-> <<>>, sender |-> <<>>, subject |-> <<>>,
          day_str |-> "", mapped_folder |-> <<>>, target |-> <<>>,
          written |-> 0, failed |-> 0, blocked |-> 0,
          uid_resp |-> "", header_resp |-> "", body_resp |-> "",
          archive_resp |-> <<>>, archive_raised |-> FALSE]

Zero == [processed |-> 0, skipped |-> 0, errors |-> 0]

NoResult == [returned |-> FALSE, processed |-> 0, skipped |-> 0, errors |-> 0]

NoCall == [op |-> "none", ok |-> TRUE, again |-> FALSE, rfaulted |-> FALSE,
           changed |-> FALSE, reads |-> {}, reread |-> FALSE,
           lost |-> <<>>, retried |-> FALSE]

NoProbe == [op |-> "none"]

NoSearch == [mailbox |-> <<>>, deleted |-> {}]

NoCrash == [phase |-> "none", saved |-> {}, inflight |-> {}, written |-> {}]

\* everything but INBOX and the helper call observed
InitRun ==
    /\ today = 0
    /\ cfg \in Configs
    /\ files = EmptyMap
    /\ deleted = {}
    /\ pc = "idle"
    /\ dry_run = FALSE
    /\ cache = EmptyMap
    /\ todo = <<>>
    /\ counts = Zero
    /\ cur = NoCur
    /\ ops = <<>>
    /\ ret = ""
    /\ result = NoResult
    /\ recordedBefore = {}
    /\ ledgerAtStart = {}
    /\ savedOK = {}
    /\ call = NoCall
    /\ session = <<>>
    /\ mail = "none"
    /\ found = <<>>
    /\ searched = NoSearch
    /\ visited = <<>>
    /\ logouts = <<>>
    /\ folder = EmptyMap
    /\ crash = NoCrash

Init ==
    /\ InitRun
    /\ mailbox \in Mailboxes
    /\ probe = NoProbe

\* ------------------------------------------------------------ run control
\* The clock passes midnight between two runs.
Tick ==
    /\ pc = "idle"
    /\ today < MaxDay
    /\ today' = today + 1
    /\ UNCHANGED << cfg, files, mailbox, deleted, runVars, recordedBefore,
                    ledgerAtStart, ledgerHist >>

\* process(), lines 157-169: the retention sweep, then a fresh cache.
StartRun ==
    /\ pc = "idle"
    /\ \E dr \in BOOLEAN,
          undeletable \in SUBSET Expired(files, cfg.keep_processed_days, today) :
        /\ dry_run' = dr
        /\ files' = cleanup_old_processed_days(files, cfg.keep_processed_days,
                                               today, undeletable)
    /\ cache' = EmptyMap
    /\ pc' = "connect"
    /\ todo' = <<>>
    /\ counts' = Zero
    /\ cur' = NoCur
    /\ ops' = <<>>
    /\ ret' = ""
    /\ result' = NoResult
    /\ session' = <<>>
    /\ mail' = "none"
    /\ found' = <<>>
    /\ searched' = NoSearch
    /\ visited' = <<>>
    /\ logouts' = <<>>
    /\ recordedBefore' = recordedBefore \cup LedgerPairs(files)
    /\ ledgerAtStart' = LedgerPairs(files')
    /\ UNCHANGED << today, cfg, mailbox, deleted, ledgerHist >>

\* The process returns to its caller: the locals of the run are gone.
Return(res) ==
    /\ pc' = "idle"
    /\ result' = res
    /\ cache' = EmptyMap
    /\ todo' = <<>>
    /\ counts' = Zero
    /\ cur' = NoCur
    /\ ops' = <<>>
    /\ ret' = ""
    /\ dry_run' = FALSE
    /\ session' = <<>>
    /\ found' = <<>>
    /\ searched' = NoSearch
    /\ visited' = <<>>

\* Mutant of sleeps_after: the sleep follows every failed attempt.
sleeps_after_every_failure(attempts, retries) == TRUE

\* imap_connect: "if attempts < max_retries: time.sleep(retry_delay)".
sleeps_after(attempts, retries) == attempts < retries

RECURSIVE connect_loop(_, _, _)
\* imap_connect: the while loop entered with `attempts` attempts made;
\* outcomes[a] tells whether IMAP4_SSL(server) and login of attempt a succeed.
\* The result holds the logins and sleeps in order, and what the call ends in.
connect_loop(attempts, outcomes, retries) ==
    IF ~(attempts < retries)
    THEN [events |-> <<>>, result |-> "ConnectionError"]
    ELSE IF outcomes[attempts + 1]
    THEN [events |-> <<"LOGIN">>, result |-> "mail"]
    ELSE LET rest == connect_loop(attempts + 1, outcomes, retries) IN
         [events |-> <<"LOGIN">>
                     \o (IF sleeps_after(attempts + 1, retries) THEN <<"SLEEP">> ELSE <<>>)
                     \o rest.events,
          result |-> rest.result]

\* imap_connect(server, user, password, max_retries, retry_delay)
imap_connect(outcomes, retries) == connect_loop(0, outcomes, retries)

\* int(imap_cfg.get("max_retries", 5))
max_retries == 5

\* process(), lines 171-195: get_imap_password and imap_connect; a failure
\* returns ProcessingResult(0, 0, 0) with no session to log out from.
Connect ==
    /\ pc = "connect"
    /\ \E password \in BOOLEAN, outcomes \in [1..max_retries -> BOOLEAN] :
        IF password /\ imap_connect(outcomes, max_retries).result = "mail"
        THEN /\ pc' = "select"
             /\ mail' = "mail"
             /\ UNCHANGED << dry_run, cache, todo, counts, cur, ops, ret, result, session,
                             found, searched, visited, logouts >>
        ELSE /\ Return([returned |-> TRUE, processed |-> 0, skipped |-> 0, errors |-> 0])
             /\ UNCHANGED << mail, logouts >>
    /\ UNCHANGED << today, cfg, files, mailbox, deleted, recordedBefore,
                    ledgerAtStart, ledgerHist >>

\* SEARCH SINCE start_date: the sequence numbers of the messages that arrived
\* on or after today - start_days_back (a message arrives on its Date day).
SearchSince(mb, now) ==
    {i \in 1..Len(mb) : mb[i].date = NoDay \/ mb[i].date >= now - start_days_back}

RECURSIVE email_ids(_)
\* messages[0].split(): the sequence numbers of the search, ascending
email_ids(ids) ==
    IF ids = {} THEN <<>>
    ELSE LET low == CHOOSE i \in ids : \A j \in ids : i <= j
         IN <<low>> \o email_ids(ids \ {low})

RECURSIVE Reversed_in_search_order(_)
\* Mutant of Reversed: the messages are iterated in the order of the search.
Reversed_in_search_order(ids) ==
    IF ids = {} THEN <<>>
    ELSE LET low == CHOOSE i \in ids : \A j \in ids : i <= j
         IN <<low>> \o Reversed_in_search_order(ids \ {low})

RECURSIVE Reversed(_)
\* reversed(email_ids) of the ascending list of the set ids
Reversed(ids) ==
    IF ids = {} THEN <<>>
    ELSE LET top == CHOOSE i \in ids : \A j \in ids : j <= i
         IN <<top>> \o Reversed(ids \ {top})

\* Mutant of after_select: the status of select is not looked at.
after_select_ignores_status(status) == IF status = "RAISE" THEN "abort" ELSE "continue"

\* Lines 202-209: what the response to mail.select("INBOX") leads to.
after_select(status) == IF status = "OK" THEN "continue" ELSE "abort"

\* Lines 212-219: what the response to mail.search leads to.
after_search(status) == IF status = "OK" THEN "continue" ELSE "abort"

\* process(), lines 200-243: select INBOX and search; a non-OK status or an
\* exception of either ends the run (through the finally block's logout).
SelectAndSearch ==
    /\ pc = "select"
    /\ \E sel \in {"OK", "NO", "RAISE"}, srch \in {"OK", "NO", "RAISE"} :
        CASE after_select(sel) = "abort" ->
                /\ session' = <<"SELECT_FAILED">>
                /\ pc' = "logout"
                /\ UNCHANGED << todo, cur, found, searched, visited >>
          [] after_select(sel) # "abort" /\ after_search(srch) = "abort" ->
                /\ session' = << (IF sel = "OK" THEN "SELECT" ELSE "SELECT_FAILED"),
                                 "SEARCH_FAILED" >>
                /\ pc' = "logout"
                /\ UNCHANGED << todo, cur, found, searched, visited >>
          [] OTHER ->
                /\ session' = << (IF sel = "OK" THEN "SELECT" ELSE "SELECT_FAILED"), "SEARCH" >>
                /\ found' = email_ids(SearchSince(mailbox, today))
                /\ searched' = [mailbox |-> mailbox, deleted |-> deleted]
                /\ todo' = Reversed(SearchSince(mailbox, today))
                /\ pc' = IF todo' = <<>> THEN "logout" ELSE "fetch_uid"
                /\ cur' = IF todo' = <<>> THEN NoCur ELSE [NoCur EXCEPT !.msg_id = Head(todo')]
                /\ visited' = IF todo' = <<>> THEN <<>> ELSE <<Head(todo')>>
    /\ UNCHANGED << today, cfg, files, mailbox, deleted, dry_run, cache, counts,
                    ops, ret, result, recordedBefore, ledgerAtStart, ledgerHist,
                    mail, logouts >>

\* Mutant of finally_logout: the session is left without a logout.
finally_logout_never(m) == FALSE

\* Line 307: "if mail:" of the finally block.
finally_logout(m) == m # "none"

\* Lines 308-311: an exception of mail.logout() is logged; the value of the
\* return statement that led to the finally block is returned.
after_logout(outcome, res) == res

\* process(), lines 299-312: mail.logout() (its failure is only logged), then
\* the result is returned.
Logout ==
    /\ pc = "logout"
    /\ \E outcome \in {"OK", "RAISE"} :
        /\ logouts' = IF finally_logout(mail)
                       THEN Append(logouts, [outcome |-> outcome, counts |-> counts])
                       ELSE logouts
        /\ Return(after_logout(outcome,
                               [returned |-> TRUE, processed |-> counts.processed,
                                skipped |-> counts.skipped, errors |-> counts.errors]))
    /\ UNCHANGED << today, cfg, files, mailbox, deleted, recordedBefore,
                    ledgerAtStart, ledgerHist, mail >>

\* The host terminates the process at an arbitrary point of a run.
Terminate ==
    /\ pc # "idle"
    /\ Return(NoResult)
    /\ UNCHANGED << today, cfg, files, mailbox, deleted, recordedBefore,
                    ledgerAtStart, ledgerHist, mail, logouts >>

\* --------------------------------------------------------- _process_email
env == << today, cfg, recordedBefore, ledgerAtStart, ledgerHist, session, sessionVars >>
env_but_visited == << today, cfg, recordedBefore, ledgerAtStart, ledgerHist, session,
                      mail, found, searched, logouts >>
server == << mailbox, deleted >>

\* _process_email returns value r.
Returns(r) ==
    /\ pc' = "returned"
    /\ ret' = r

\* Mutant of after_uid_fetch: every failure of the fetch is an error.
after_uid_fetch_all_errors(resp) == IF resp = "OK" THEN "continue" ELSE "error"

\* Lines 321-340: what the response to the identifier fetch leads to.
\* NO: status not OK; EMPTY: no data; NOUID: no "UID <digits>" in the
\* response; BADSHAPE: the response cannot be decoded; RAISE: fetch raises.
after_uid_fetch(resp) ==
    CASE resp = "RAISE"    -> "error"
      [] resp = "NO"       -> "skipped"
      [] resp = "EMPTY"    -> "skipped"
      [] resp = "BADSHAPE" -> "error"
      [] resp = "NOUID"    -> "skipped"
      [] OTHER             -> "continue"

\* Lines 321-342: phase A, mail.fetch(msg_id, "(UID RFC822.SIZE BODYSTRUCTURE)");
\* the fetch of a sequence number INBOX no longer has does not answer OK.
FetchUID ==
    /\ pc = "fetch_uid"
    /\ ops' = Append(ops, "FETCH_UID")
    /\ \E resp \in {"OK", "NO", "EMPTY", "NOUID", "BADSHAPE", "RAISE"} :
        /\ resp = "OK" => cur.msg_id \in DOMAIN mailbox
        /\ IF after_uid_fetch(resp) = "continue"
           THEN /\ cur' = [cur EXCEPT !.uid = mailbox[cur.msg_id].uid, !.uid_resp = resp]
                /\ pc' = "fetch_header"
                /\ UNCHANGED ret
           ELSE /\ Returns(after_uid_fetch(resp))
                /\ cur' = [cur EXCEPT !.uid_resp = resp]
    /\ UNCHANGED << env, server, files, dry_run, cache, todo, counts, result >>

\* Mutant of after_header_fetch: every failure of the fetch is an error.
after_header_fetch_all_errors(resp) == IF resp = "OK" THEN "continue" ELSE "error"

\* Lines 344-368: what the response to the header fetch leads to.
\* NOBYTES: an empty header payload; BADCHARSET: the Subject cannot be
\* decoded, which raises outside every try block of _process_email.
after_header_fetch(resp) ==
    CASE resp = "RAISE"      -> "error"
      [] resp = "NO"         -> "skipped"
      [] resp = "EMPTY"      -> "skipped"
      [] resp = "NOBYTES"    -> "skipped"
      [] resp = "BADSHAPE"   -> "error"
      [] resp = "BADCHARSET" -> "raise"
      [] OTHER               -> "continue"

\* Lines 344-368: phase B, mail.fetch(msg_id, "(BODY.PEEK[HEADER.FIELDS (FROM
\* SUBJECT DATE)])"), then sender, subject and day_str.
FetchHeader ==
    /\ pc = "fetch_header"
    /\ ops' = Append(ops, "FETCH_HEADER")
    /\ \E resp \in {"OK", "NO", "EMPTY", "NOBYTES", "BADSHAPE", "BADCHARSET", "RAISE"} :
        CASE after_header_fetch(resp) = "continue" ->
                /\ cur' = [cur EXCEPT !.sender = mailbox[cur.msg_id].sender,
                                      !.subject = mailbox[cur.msg_id].subject,
                                      !.day_str = DayStr(mailbox[cur.msg_id].date),
                                      !.header_resp = resp]
                /\ pc' = "dedup"
                /\ UNCHANGED ret
          [] after_header_fetch(resp) = "raise" ->
                /\ pc' = "raised"
                /\ cur' = [cur EXCEPT !.header_resp = resp]
                /\ UNCHANGED ret
          [] OTHER ->
                /\ Returns(after_header_fetch(resp))
                /\ cur' = [cur EXCEPT !.header_resp = resp]
    /\ UNCHANGED << env, server, files, dry_run, cache, todo, counts, result >>

\* Mutant of dedup_check: a store that cannot be read is taken as empty.
dedup_check_failure_as_empty(l, uid) ==
    IF l.ok /\ uid \in l.uids THEN "skipped" ELSE "continue"

\* Mutant of dedup_check: a recorded UID is not skipped.
dedup_check_never_skips(l, uid) == IF ~l.ok THEN "error" ELSE "continue"

\* Lines 370-378: the value the dedup check returns, "continue" to go on.
dedup_check(l, uid) ==
    IF ~l.ok THEN "error"
    ELSE IF uid \in l.uids THEN "skipped"
    ELSE "continue"

\* Lines 370-378: load the bucket of the message and look the UID up.
Dedup ==
    /\ pc = "dedup"
    /\ \E fault \in BOOLEAN :
        LET l == load_processed_for_day(files, cur.day_str, cache, fault) IN
        /\ cache' = l.cache
        /\ ops' = ops \o (IF l.ok THEN <<"DEDUP">> ELSE <<"DEDUP", "LOAD_FAILED">>)
        /\ IF dedup_check(l, cur.uid) = "continue"
           THEN pc' = "sender" /\ UNCHANGED ret
           ELSE Returns(dedup_check(l, cur.uid))
    /\ UNCHANGED << env, server, files, dry_run, todo, counts, cur, result >>

\* Mutant of after_best_effort_save: the failure is escalated.
after_best_effort_save_escalates(ok) == IF ok THEN "skipped" ELSE "error"

\* Lines 384-388 and 416-420: the value returned after the best-effort
\* record of a rejected sender or a fetch miss (a failure is only logged).
after_best_effort_save(ok) == "skipped"

\* Mutant of records_rejected_sender: the UID is recorded whatever the flag.
records_rejected_sender_always(skip_non_allowed_as_processed) == TRUE

\* Line 383: "if self.skip_non_allowed_as_processed".
records_rejected_sender(skip_non_allowed_as_processed) == skip_non_allowed_as_processed

\* Lines 380-388: a sender outside the allow-set is skipped; its UID is
\* recorded when skip_non_allowed_as_processed is set (a failure is logged).
SenderFilter ==
    /\ pc = "sender"
    /\ IF is_allowed_sender(cur.sender)
       THEN /\ pc' = "folder"
            /\ ops' = Append(ops, "SENDER_OK")
            /\ UNCHANGED << files, cache, ret >>
       ELSE IF records_rejected_sender(cfg.skip_non_allowed_as_processed)
            THEN \E rfault \in BOOLEAN, wfault \in BOOLEAN :
                   LET s == save_processed_uid_for_day(files, cur.day_str, cur.uid,
                                                       cache, rfault, wfault) IN
                   /\ files' = s.fs
                   /\ cache' = s.cache
                   /\ ops' = ops \o <<"SENDER_REJECTED", IF s.ok THEN "SAVE" ELSE "SAVE_FAILED">>
                   /\ Returns(after_best_effort_save(s.ok))
            ELSE /\ Returns("skipped")
                 /\ ops' = Append(ops, "SENDER_REJECTED")
                 /\ UNCHANGED << files, cache >>
    /\ UNCHANGED << env, server, dry_run, todo, counts, cur, result >>

\* Lines 392-396: the name of the target folder under the download root.
target_name(subject) ==
    IF resolve_folder(subject) # <<>>
    THEN resolve_folder(subject)
    ELSE normalize_folder_name(subject)

\* Mutant of after_validate_path: the result of validate_path is not looked at.
after_validate_path_ignores(valid) == "continue"

\* Lines 401-403: a target outside the download root returns "error".
after_validate_path(valid) == IF valid THEN "continue" ELSE "error"

\* Lines 390-409: resolve and validate the target folder, then create it.
Folder ==
    /\ pc = "folder"
    /\ cur' = [cur EXCEPT !.mapped_folder = resolve_folder(cur.subject),
                          !.target = target_name(cur.subject)]
    /\ IF after_validate_path(validate_path(target_name(cur.subject))) # "continue"
       THEN /\ Returns(after_validate_path(validate_path(target_name(cur.subject))))
            /\ UNCHANGED ops
       ELSE \E mkdir \in {"OK", "RAISE"} :
              IF mkdir = "OK"
              THEN /\ ops' = ops \o <<"FOLDER_OK", "MKDIR">>
                   /\ pc' = "fetch_body"
                   /\ UNCHANGED ret
              ELSE /\ ops' = Append(ops, "FOLDER_OK")
                   /\ Returns("error")
    /\ UNCHANGED << env, server, files, dry_run, cache, todo, counts, result >>

\* Mutant of after_body_fetch: a fetch that raises is taken as a fetch miss.
after_body_fetch_raise_as_miss(resp) ==
    CASE resp = "RAISE"    -> "record"
      [] resp = "NO"       -> "record"
      [] resp = "EMPTY"    -> "record"
      [] resp = "NOBYTES"  -> "skipped"
      [] resp = "BADSHAPE" -> "error"
      [] OTHER             -> "continue"

\* Lines 411-433: what the response to the full-body fetch leads to.
\* "record" is the logged and skipped fetch miss that still records the UID.
after_body_fetch(resp) ==
    CASE resp = "RAISE"    -> "error"
      [] resp = "NO"       -> "record"
      [] resp = "EMPTY"    -> "record"
      [] resp = "NOBYTES"  -> "skipped"
      [] resp = "BADSHAPE" -> "error"
      [] OTHER             -> "continue"

\* Lines 411-433: phase C, mail.fetch(msg_id, "(RFC822)").
FetchBody ==
    /\ pc = "fetch_body"
    /\ \E resp \in {"OK", "NO", "EMPTY", "NOBYTES", "BADSHAPE", "RAISE"} :
        /\ cur' = [cur EXCEPT !.body_resp = resp]
        /\ CASE after_body_fetch(resp) = "continue" ->
                   /\ pc' = "attachments"
                   /\ ops' = Append(ops, "FETCH_BODY")
                   /\ UNCHANGED << files, cache, ret >>
             [] after_body_fetch(resp) = "record" ->
                   \E rfault \in BOOLEAN, wfault \in BOOLEAN :
                         LET s == save_processed_uid_for_day(files, cur.day_str, cur.uid,
                                                             cache, rfault, wfault) IN
                         /\ files' = s.fs
                         /\ cache' = s.cache
                         /\ ops' = ops \o <<"FETCH_BODY", IF s.ok THEN "SAVE" ELSE "SAVE_FAILED">>
                         /\ Returns(after_best_effort_save(s.ok))
             [] OTHER ->
                   /\ Returns(after_body_fetch(resp))
                   /\ ops' = Append(ops, "FETCH_BODY")
                   /\ UNCHANGED << files, cache >>
    /\ UNCHANGED << env, server, dry_run, todo, counts, result >>

\* What handling one attachment part comes to: "saved" (written, or
\* simulated in a dry run), "failed" (an I/O error), "blocked" (rejected by
\* the extension or size policy).
PartKinds == {"saved", "failed", "blocked"}

\* The attachment parts a message body can hold.
Bodies == UNION {[1..n -> PartKinds] : n \in 0..MaxParts}

\* AttachmentHandler.save_attachment: true iff the part was saved.
save_attachment(part) == part = "saved"

RECURSIVE WriteOps(_, _)
\* One WRITE per part written to disk (none in a dry run).
WriteOps(parts, dr) ==
    IF parts = <<>> THEN <<>>
    ELSE (IF save_attachment(Head(parts)) /\ ~dr THEN <<"WRITE">> ELSE <<>>)
         \o WriteOps(Tail(parts), dr)

\* Lines 435-447: walk the parts of the body and save every attachment;
\* an exception of the walk returns "error".
Attachments ==
    /\ pc = "attachments"
    /\ \E parts \in Bodies, walk \in {"OK", "RAISE"} :
        /\ cur' = [cur EXCEPT !.written = Cardinality({i \in 1..Len(parts) : save_attachment(parts[i])}),
                              !.failed = Cardinality({i \in 1..Len(parts) : ~save_attachment(parts[i])}),
                              !.blocked = Cardinality({i \in 1..Len(parts) : parts[i] = "blocked"})]
        /\ ops' = ops \o <<"WALK">> \o WriteOps(parts, dry_run)
        /\ IF walk = "OK"
           THEN pc' = "save_uid" /\ UNCHANGED ret
           ELSE Returns("error")
    /\ UNCHANGED << env, server, files, dry_run, cache, todo, counts, result >>

\* Mutant of after_save: the failure is logged and processing goes on.
after_save_swallows(ok) == "continue"

\* Lines 449-454: a failure to record the UID returns "error".
after_save(ok) == IF ok THEN "continue" ELSE "error"

\* Lines 449-454: record the UID of the message whose parts were walked.
SaveUID ==
    /\ pc = "save_uid"
    /\ \E rfault \in BOOLEAN, wfault \in BOOLEAN :
        LET s == save_processed_uid_for_day(files, cur.day_str, cur.uid,
                                            cache, rfault, wfault) IN
        /\ files' = s.fs
        /\ cache' = s.cache
        /\ ops' = Append(ops, IF s.ok THEN "SAVE" ELSE "SAVE_FAILED")
        /\ IF after_save(s.ok) = "continue"
           THEN /\ pc' = "archive"
                /\ UNCHANGED ret
           ELSE Returns(after_save(s.ok))
    /\ UNCHANGED << env, server, dry_run, todo, counts, cur, result >>

\* Mutant of archive_message: the status of COPY is not looked at.
archive_message_ignores_copy(copy, store, expunge) ==
    IF copy = "RAISE" THEN <<"CREATE", "COPY">>
    ELSE IF store = "RAISE" THEN <<"CREATE", "COPY", "STORE">>
    ELSE <<"CREATE", "COPY", "STORE", "EXPUNGE">>

\* archive_message: the commands it issues for the responses it gets.  The
\* failure of create is ignored; COPY with a status other than OK ends it;
\* an exception of COPY, STORE or expunge ends it (and leaves the function).
archive_message(copy, store, expunge) ==
    IF copy # "OK" THEN <<"CREATE", "COPY">>
    ELSE IF store = "RAISE" THEN <<"CREATE", "COPY", "STORE">>
    ELSE <<"CREATE", "COPY", "STORE", "EXPUNGE">>

\* archive_message: whether the call is left by an exception.  The function
\* catches the exception of create only; the status of STORE and of expunge
\* is not looked at.
archive_raises(copy, store, expunge) ==
    \/ copy = "RAISE"
    \/ copy = "OK" /\ store = "RAISE"
    \/ copy = "OK" /\ store # "RAISE" /\ expunge = "RAISE"

\* archive_message: the responses to the commands it issued after create.
archive_responses(copy, store, expunge) ==
    IF copy # "OK" THEN <<copy>>
    ELSE IF store = "RAISE" THEN <<copy, store>>
    ELSE <<copy, store, expunge>>

\* Lines 466-472: the value returned after the ledger record and the archive.
final_outcome(written, failed) ==
    IF written > 0 THEN "processed"
    ELSE IF failed > 0 THEN "error"
    ELSE "skipped"

\* Mutant of after_archive: an exception of archive_message is an error.
after_archive_escalates(raised, outcome) == IF raised THEN "error" ELSE outcome

\* Lines 461-472: an exception of archive_message is logged, and the value
\* returned is the one the attachments decide.
after_archive(raised, outcome) == outcome

\* Mutant of to_archive: a dry run archives too.
to_archive_in_dry_run(mapped_folder, archive_only_mapped, dr) ==
    mapped_folder # <<>> /\ archive_only_mapped

\* Lines 456-464: whether the message is to be archived.
to_archive(mapped_folder, archive_only_mapped, dr) ==
    mapped_folder # <<>> /\ archive_only_mapped /\ ~dr

RemoveUids(mb, gone) == SelectSeq(mb, LAMBDA m : m.uid \notin gone)

\* Lines 456-472: archive the message when it was routed to a mapped folder,
\* then return the outcome.
Archive ==
    /\ pc = "archive"
    /\ IF to_archive(cur.mapped_folder, cfg.archive_only_mapped, dry_run)
       THEN \E copy \in {"OK", "NO", "RAISE"}, store \in {"OK", "NO", "RAISE"},
               expunge \in {"OK", "NO", "RAISE"} :
              LET issued == archive_message(copy, store, expunge)
                  flagged == IF "STORE" \in Range(issued) /\ store = "OK"
                             THEN deleted \cup {cur.uid} ELSE deleted
              IN
              /\ ops' = ops \o issued
              /\ cur' = [cur EXCEPT !.archive_resp = archive_responses(copy, store, expunge),
                                    !.archive_raised = archive_raises(copy, store, expunge)]
              /\ Returns(after_archive(archive_raises(copy, store, expunge),
                                       final_outcome(cur.written, cur.failed)))
              /\ IF "EXPUNGE" \in Range(issued) /\ expunge = "OK"
                 THEN /\ mailbox' = RemoveUids(mailbox, flagged)
                      /\ deleted' = {}
                 ELSE /\ mailbox' = mailbox
                      /\ deleted' = flagged
       ELSE /\ Returns(final_outcome(cur.written, cur.failed))
            /\ UNCHANGED << ops, server, cur >>
    /\ UNCHANGED << env, files, dry_run, cache, todo, counts, result >>

\* Mutant of Tally: an exception of _process_email ends the loop.
Tally_aborts_on_exception ==
    /\ pc \in {"returned", "raised"}
    /\ counts' = CASE pc = "raised"     -> [counts EXCEPT !.errors = @ + 1]
                   [] ret = "processed" -> [counts EXCEPT !.processed = @ + 1]
                   [] ret = "skipped"   -> [counts EXCEPT !.skipped = @ + 1]
                   [] ret = "error"     -> [counts EXCEPT !.errors = @ + 1]
                   [] OTHER             -> counts
    /\ todo' = IF pc = "raised" THEN <<>> ELSE Tail(todo)
    /\ pc' = IF todo' = <<>> THEN "logout" ELSE "fetch_uid"
    /\ cur' = IF todo' = <<>> THEN NoCur ELSE [NoCur EXCEPT !.msg_id = Head(todo')]
    /\ visited' = IF todo' = <<>> THEN visited ELSE Append(visited, Head(todo'))
    /\ ops' = <<>>
    /\ ret' = ""
    /\ UNCHANGED << env_but_visited, server, files, dry_run, cache, result >>

\* Mutant of Tally: a message that ended in "error" is processed once more.
Tally_retries_failed_message ==
    /\ pc \in {"returned", "raised"}
    /\ LET retry == /\ pc = "returned"
                     /\ ret = "error"
                     /\ Cardinality({i \in 1..Len(visited) : visited[i] = cur.msg_id}) = 1
       IN
       /\ counts' = CASE retry              -> counts
                       [] pc = "raised"     -> [counts EXCEPT !.errors = @ + 1]
                       [] ret = "processed" -> [counts EXCEPT !.processed = @ + 1]
                       [] ret = "skipped"   -> [counts EXCEPT !.skipped = @ + 1]
                       [] ret = "error"     -> [counts EXCEPT !.errors = @ + 1]
                       [] OTHER             -> counts
       /\ todo' = IF retry THEN todo ELSE Tail(todo)
    /\ pc' = IF todo' = <<>> THEN "logout" ELSE "fetch_uid"
    /\ cur' = IF todo' = <<>> THEN NoCur ELSE [NoCur EXCEPT !.msg_id = Head(todo')]
    /\ visited' = IF todo' = <<>> THEN visited ELSE Append(visited, Head(todo'))
    /\ ops' = <<>>
    /\ ret' = ""
    /\ UNCHANGED << env_but_visited, server, files, dry_run, cache, result >>

\* Mutant of Tally: a message whose processing raised is not counted.
Tally_exception_uncounted ==
    /\ pc \in {"returned", "raised"}
    /\ counts' = CASE pc = "raised"     -> counts
                   [] ret = "processed" -> [counts EXCEPT !.processed = @ + 1]
                   [] ret = "skipped"   -> [counts EXCEPT !.skipped = @ + 1]
                   [] ret = "error"     -> [counts EXCEPT !.errors = @ + 1]
                   [] OTHER             -> counts
    /\ todo' = Tail(todo)
    /\ pc' = IF todo' = <<>> THEN "logout" ELSE "fetch_uid"
    /\ cur' = IF todo' = <<>> THEN NoCur ELSE [NoCur EXCEPT !.msg_id = Head(todo')]
    /\ visited' = IF todo' = <<>> THEN visited ELSE Append(visited, Head(todo'))
    /\ ops' = <<>>
    /\ ret' = ""
    /\ UNCHANGED << env_but_visited, server, files, dry_run, cache, result >>

\* Lines 241-275: the loop of process() counts the outcome of the message (an
\* exception counts as an error) and goes on to the next sequence number.
Tally ==
    /\ pc \in {"returned", "raised"}
    /\ counts' = CASE pc = "raised"     -> [counts EXCEPT !.errors = @ + 1]
                   [] ret = "processed" -> [counts EXCEPT !.processed = @ + 1]
                   [] ret = "skipped"   -> [counts EXCEPT !.skipped = @ + 1]
                   [] ret = "error"     -> [counts EXCEPT !.errors = @ + 1]
                   [] OTHER             -> counts
    /\ todo' = Tail(todo)
    /\ pc' = IF todo' = <<>> THEN "logout" ELSE "fetch_uid"
    /\ cur' = IF todo' = <<>> THEN NoCur ELSE [NoCur EXCEPT !.msg_id = Head(todo')]
    /\ visited' = IF todo' = <<>> THEN visited ELSE Append(visited, Head(todo'))
    /\ ops' = <<>>
    /\ ret' = ""
    /\ UNCHANGED << env_but_visited, server, files, dry_run, cache, result >>

Next ==
    \/ Tick
    \/ StartRun
    \/ Connect
    \/ SelectAndSearch
    \/ FetchUID
    \/ FetchHeader
    \/ Dedup
    \/ SenderFilter
    \/ Folder
    \/ FetchBody
    \/ Attachments
    \/ SaveUID
    \/ Archive
    \/ Tally
    \/ Logout
    \/ Terminate

Spec == Init /\ [][Next]_vars

\* ------------------------------------------- a mailbox of messages to archive
\* INBOX holds messages of an allowed sender whose subject is mapped to a
\* folder, so that every one of them is archived in a live run.
Invoices ==
    << [uid |-> <<"1">>, date |-> 0, sender |-> <<"B", "@", "x">>, subject |-> <<"I", "n", "v">>],
       [uid |-> <<"6">>, date |-> 1, sender |-> <<"b", "@", "x">>, subject |-> <<"I", "n", "v">>],
       [uid |-> <<"7">>, date |-> 0, sender |-> <<"b", "@", "x">>, subject |-> <<"I", "n", "v">>] >>

ArchiveInit ==
    /\ InitRun
    /\ mailbox = Invoices
    /\ probe = NoProbe
    /\ cfg.archive_only_mapped
    /\ cfg.skip_non_allowed_as_processed

ArchiveSpec == ArchiveInit /\ [][Next]_vars

\* ------------------------------------------------- the ledger on its own
\* The ledger driven call by call, as a run of process() uses it: a sweep
\* and a fresh cache when a run starts, then loads and saves in any order.

\* Identifiers: texts the pattern "UID (\d+)" can yield.
LedgerIds == {<<"1">>, <<"2">>}

LedgerBuckets == {strftime(0), strftime(MaxDay), "nodate"}

LedgerInit ==
    /\ Init
    /\ mailbox = <<>>
    /\ cfg.skip_non_allowed_as_processed
    /\ cfg.archive_only_mapped

\* A run starts: cleanup_old_processed_days, then processed_cache = {}.
LedgerStartRun ==
    /\ \E undeletable \in SUBSET Expired(files, cfg.keep_processed_days, today) :
        files' = cleanup_old_processed_days(files, cfg.keep_processed_days,
                                            today, undeletable)
    /\ cache' = EmptyMap
    /\ savedOK' = {p \in savedOK : p[2] \in DOMAIN files'}
    /\ call' = NoCall
    /\ UNCHANGED << today, cfg, server, runVars_but_cache, recordedBefore, ledgerAtStart,
                    helperVars >>

\* load_processed_for_day(root_dir, b, cache)
LedgerLoad ==
    /\ \E b \in LedgerBuckets, fault \in BOOLEAN :
        LET l == load_processed_for_day(files, b, cache, fault) IN
        /\ cache' = l.cache
        /\ call' = [op |-> "load", ok |-> l.ok, again |-> FALSE,
                    rfaulted |-> ~l.ok, changed |-> FALSE,
                    reads |-> IF l.read THEN call.reads \cup {b} ELSE call.reads,
                    reread |-> call.reread \/ (l.read /\ b \in call.reads),
                    lost |-> call.lost, retried |-> FALSE]
    /\ UNCHANGED << today, cfg, files, server, runVars_but_cache, recordedBefore,
                    ledgerAtStart, savedOK, helperVars >>

\* save_processed_uid_for_day(root_dir, b, u, cache)
LedgerSave ==
    /\ \E b \in LedgerBuckets, u \in LedgerIds, rfault \in BOOLEAN, wfault \in BOOLEAN :
        LET s == save_processed_uid_for_day(files, b, u, cache, rfault, wfault) IN
        /\ files' = s.fs
        /\ cache' = s.cache
        /\ savedOK' = IF s.ok THEN savedOK \cup {<<u, b>>} ELSE savedOK
        /\ call' = [op |-> "save", ok |-> s.ok, again |-> <<u, b>> \in savedOK,
                    rfaulted |-> rfault /\ b \notin DOMAIN cache,
                    changed |-> s.fs # files,
                    reads |-> IF s.read THEN call.reads \cup {b} ELSE call.reads,
                    reread |-> call.reread \/ (s.read /\ b \in call.reads),
                    lost |-> IF ~s.ok /\ ~(rfault /\ b \notin DOMAIN cache) THEN <<u, b>>
                             ELSE IF s.ok /\ call.lost = <<u, b>> THEN <<>>
                             ELSE call.lost,
                    retried |-> call.lost = <<u, b>>]
    /\ UNCHANGED << today, cfg, server, runVars_but_cache, recordedBefore, ledgerAtStart,
                    helperVars >>

LedgerNext ==
    \/ Tick
    \/ LedgerStartRun
    \/ LedgerLoad
    \/ LedgerSave

LedgerSpec == LedgerInit /\ [][LedgerNext]_vars

\* ------------------------------------------------- the helpers on their own
\* The pure helpers called with arguments drawn from small sets; probe holds
\* the last call.  safe_save_path is called against the files of one target
\* folder, and the file is then written to the path it returned.

Digits == <<"0", "1", "2", "3", "4", "5", "6", "7", "8", "9">>

RECURSIVE Decimal(_)
\* str(n) for n >= 0
Decimal(n) ==
    IF n < 10 THEN <<Digits[n + 1]>> ELSE Decimal(n \div 10) \o <<Digits[(n % 10) + 1]>>

\* f"{counter:02d}"
Format02d(counter) ==
    IF Len(Decimal(counter)) < 2 THEN <<"0">> \o Decimal(counter) ELSE Decimal(counter)

\* os.path.splitext: the extension starts at the last dot, unless that dot
\* leads the name.
splitext(filename) ==
    LET dots == {i \in 1..Len(filename) : filename[i] = "."}
        last == IF dots = {} THEN 0 ELSE CHOOSE i \in dots : \A j \in dots : j <= i
    IN IF last <= 1
       THEN [base |-> filename, ext |-> <<>>]
       ELSE [base |-> SubSeq(filename, 1, last - 1),
             ext |-> SubSeq(filename, last, Len(filename))]

RECURSIVE next_candidate(_, _, _, _)
\* safe_save_path: the while loop entered with an existing candidate.
next_candidate(names, base, ext, counter) ==
    LET candidate == base \o <<"_">> \o Format02d(counter) \o ext IN
    IF candidate \in names
    THEN next_candidate(names, base, ext, counter + 1)
    ELSE candidate

\* Mutant of safe_save_path: the existence of the candidate is not checked.
safe_save_path_no_check(names, filename) == filename

\* safe_save_path(folder, filename): names are the files of the folder.
safe_save_path(names, filename) ==
    IF filename \in names
    THEN next_candidate(names, splitext(filename).base, splitext(filename).ext, 1)
    ELSE filename

\* Sender addresses and allow-set entries the sender filter is called with.
Addresses ==
    { <<"b", "@", "x">>, <<"B", "@", "X">>, <<"b", "@">>, <<"s", "@", "y">>, <<>> }

AllowEntries ==
    { <<"B", "@", "x">>, <<"s", "@", "y">>, <<"b", "@", "x", "x">> }

\* Subjects and topic mappings resolve_custom_folder is called with: every
\* sequence of at most two pairs with different patterns.
Subjects ==
    { <<"M", " ", "I", "n", "v">>, <<"N", "e", "w", "s">>, <<"U", "P">>, <<>> }

Patterns == { <<"i", "n", "v">>, <<".", "*">>, <<"u", "p">> }

Folders == { <<"A">>, <<"B">> }

Mappings ==
    {m \in UNION {[1..n -> [pattern : Patterns, folder : Folders]] : n \in 0..2} :
        \A i, j \in DOMAIN m : i # j => m[i].pattern # m[j].pattern}

\* Names a file is saved under.
FileNames ==
    { <<"r", ".", "p">>, <<"r", "_", "0", "1", ".", "p">>,
      <<"r", "_", "0", "2", ".", "p">>, <<"r">> }

\* Stores a ledger directory can hold: the buckets and a store that is not
\* named after a day.
StoreNames == BucketNames \cup {"notes"}

Directories ==
    UNION {[names -> {<< <<"1">> >>}] : names \in SUBSET StoreNames}

\* ---- smtp/sender.py: grouping files into emails ----

MaxFiles == 3

\* st_size of the files offered for sending, and the limits tried (bytes)
FileSizes == {0, 3, 4, 6}

SizeLimits == {4, 5, 8}

RECURSIVE total_file_size(_)
total_file_size(sizes) ==
    IF sizes = <<>> THEN 0 ELSE Head(sizes) + total_file_size(Tail(sizes))

\* calculate_email_size(files): the sizes plus int(total * 0.33)
calculate_email_size(sizes) ==
    LET mime_overhead == (total_file_size(sizes) * 33) \div 100
    IN total_file_size(sizes) + mime_overhead

\* the for loop of split_files_by_size over the remaining files
RECURSIVE split_loop(_, _, _, _)
split_loop(sizes, groups, current_group, max_size_bytes) ==
    IF sizes = <<>>
    THEN [raised |-> FALSE,
          groups |-> IF current_group # <<>> THEN Append(groups, current_group) ELSE groups]
    ELSE LET file_size == Head(sizes)
             email_size_with_file == calculate_email_size(Append(current_group, file_size))
         IN
         IF file_size > max_size_bytes
         THEN [raised |-> TRUE, groups |-> <<>>]
         ELSE IF email_size_with_file > max_size_bytes /\ current_group # <<>>
              THEN split_loop(Tail(sizes), Append(groups, current_group), <<file_size>>,
                              max_size_bytes)
              ELSE split_loop(Tail(sizes), groups, Append(current_group, file_size),
                              max_size_bytes)

\* split_files_by_size(files, max_size_mb), the limit given in bytes;
\* raised is the ValueError
split_files_by_size(sizes, max_size_bytes) ==
    split_loop(sizes, <<>>, <<>>, max_size_bytes)

FileLists ==
    UNION {[1..n -> FileSizes] : n \in 0..MaxFiles}

\* ---- __main__.py: sending the files of a folder ----

\* contents of the files of the folder, by SHA256
Hashes == {"h1", "h2"}

\* folder_path.iterdir(): the files in listing order, each by its content
SendFolders ==
    UNION {[1..n -> Hashes] : n \in 0..MaxFiles}

\* SentFilesStorage.is_sent(file_path, day_str) on the hashes stored for the day
is_sent(sent, file_hash) == file_hash \in sent

\* SentFilesStorage.mark_as_sent(file_path, day_str)
mark_as_sent(sent, file_hash) == sent \cup {file_hash}

\* the first loop of the folder branch: the files not skipped as already sent
RECURSIVE new_files(_, _, _, _)
new_files(all_files, i, sent, dr) ==
    IF i > Len(all_files) THEN <<>>
    ELSE IF ~dr /\ is_sent(sent, all_files[i])
         THEN new_files(all_files, i + 1, sent, dr)
         ELSE <<i>> \o new_files(all_files, i + 1, sent, dr)

\* the second loop: send_file for every new file, mark_as_sent after a
\* success of a live run; every call is kept with the store it was made on
RECURSIVE send_loop(_, _, _, _, _, _)
send_loop(todo_files, all_files, sent, dr, outcomes, st) ==
    IF todo_files = <<>> THEN st @@ [sent |-> sent]
    ELSE LET file_path == Head(todo_files)
             success == outcomes[file_path]
             called == Append(st.calls, [file |-> file_path, sent |-> sent,
                                         success |-> success])
         IN
         IF success
         THEN send_loop(Tail(todo_files), all_files,
                        IF ~dr THEN mark_as_sent(sent, all_files[file_path]) ELSE sent,
                        dr, outcomes,
                        [st EXCEPT !.calls = called,
                                   !.sent_count = @ + 1,
                                   !.marked = IF ~dr THEN Append(@, file_path) ELSE @])
         ELSE send_loop(Tail(todo_files), all_files, sent, dr, outcomes,
                        [st EXCEPT !.calls = called, !.failed_count = @ + 1])

\* _handle_smtp_send on an existing folder: the exit status and what was done
handle_smtp_send(all_files, sent, dr, outcomes) ==
    LET todo_files == new_files(all_files, 1, sent, dr)
        done == send_loop(todo_files, all_files, sent, dr, outcomes,
                          [sent_count |-> 0, failed_count |-> 0, calls |-> <<>>,
                           marked |-> <<>>])
    IN
    IF todo_files = <<>>
    THEN [status |-> 0, calls |-> <<>>, marked |-> <<>>, sent |-> sent]
    ELSE [status |-> IF done.failed_count = 0 THEN 0 ELSE 1,
          calls |-> done.calls, marked |-> done.marked, sent |-> done.sent]

HelperInit ==
    /\ LedgerInit
    /\ cfg.keep_processed_days = 0

\* EmailFilter.is_allowed_sender with any allow-set
CallIsAllowedSender ==
    /\ \E sender \in Addresses, senders \in SUBSET AllowEntries :
        probe' = [op |-> "in_allowed_lower", sender |-> sender, senders |-> senders,
                  result |-> in_allowed_lower(sender, senders)]
    /\ UNCHANGED << today, cfg, files, server, runVars, recordedBefore, ledgerAtStart,
                    savedOK, call, folder, crash >>

\* resolve_custom_folder(subject, topic_mapping)
CallResolveFolder ==
    /\ \E subject \in Subjects, mapping \in Mappings :
        probe' = [op |-> "resolve_custom_folder", subject |-> subject, mapping |-> mapping,
                  result |-> resolve_custom_folder(subject, mapping)]
    /\ UNCHANGED << today, cfg, files, server, runVars, recordedBefore, ledgerAtStart,
                    savedOK, call, folder, crash >>

\* safe_save_path(folder, filename), then the file is written to the path;
\* its content is the number of the save.
SaveFile ==
    /\ Cardinality(DOMAIN folder) < MaxSaves
    /\ \E filename \in FileNames :
        LET path == safe_save_path(DOMAIN folder, filename)
            content == Cardinality(DOMAIN folder) + 1
        IN
        /\ probe' = [op |-> "safe_save_path", names |-> DOMAIN folder,
                     filename |-> filename, result |-> path]
        /\ folder' = IF path \in DOMAIN folder
                     THEN [folder EXCEPT ![path] = content]
                     ELSE folder @@ (path :> content)
    /\ UNCHANGED << today, cfg, files, server, runVars, recordedBefore, ledgerAtStart,
                    savedOK, call, crash >>

\* cleanup_old_processed_days(root_dir, keep_days) on the day `now`;
\* undeletable are the stores whose os.remove fails.
CallCleanup ==
    /\ \E fs \in Directories, keep_days \in -1..2, now \in Days :
        \E undeletable \in SUBSET Expired(fs, keep_days, now) :
            probe' = [op |-> "cleanup_old_processed_days", fs |-> fs,
                      keep_days |-> keep_days, now |-> now, undeletable |-> undeletable,
                      result |-> cleanup_old_processed_days(fs, keep_days, now, undeletable)]
    /\ UNCHANGED << today, cfg, files, server, runVars, recordedBefore, ledgerAtStart,
                    savedOK, call, folder, crash >>

\* imap_connect(server, user, password, max_retries, retry_delay)
CallImapConnect ==
    /\ \E retries \in 0..MaxRetries, outcomes \in [1..MaxRetries -> BOOLEAN] :
        probe' = [op |-> "imap_connect", retries |-> retries, outcomes |-> outcomes,
                  result |-> imap_connect(outcomes, retries)]
    /\ UNCHANGED << today, cfg, files, server, runVars, recordedBefore, ledgerAtStart,
                    savedOK, call, folder, crash >>

\* split_files_by_size(files, max_size_mb)
CallSplitFiles ==
    /\ probe.op = "split_args"
    /\ probe' = [op |-> "split_files_by_size", sizes |-> probe.sizes,
                 max_size_bytes |-> probe.max_size_bytes,
                 result |-> split_files_by_size(probe.sizes, probe.max_size_bytes)]
    /\ UNCHANGED << today, cfg, files, server, runVars, recordedBefore, ledgerAtStart,
                    savedOK, call, folder, crash >>

\* --send-folder on a folder, with the hashes stored for today and the
\* result send_file gives for each file
CallSendFolder ==
    /\ probe.op = "send_args"
    /\ probe' = [op |-> "send_folder", all_files |-> probe.all_files,
                 sent |-> probe.sent, dry_run |-> probe.dry_run,
                 outcomes |-> probe.outcomes,
                 result |-> handle_smtp_send(probe.all_files, probe.sent,
                                             probe.dry_run, probe.outcomes)]
    /\ UNCHANGED << today, cfg, files, server, runVars, recordedBefore, ledgerAtStart,
                    savedOK, call, folder, crash >>

\* --set-password: the password file read, then the keyring written.
\* password_file is what the path given by --password-file holds; encrypt_ok,
\* store_encrypted_ok and store_plain_ok say whether encrypt_password and
\* each keyring.set_password call return rather than raise.  stored lists
\* the values handed to keyring.set_password, in order, with whether the
\* call returned.
PasswordFiles == {"not_given", "missing", "unreadable", "empty", "ok"}

keyring_save(encrypt_ok, store_encrypted_ok, store_plain_ok) ==
    LET first == IF encrypt_ok
                 THEN << [value |-> "encrypted", ok |-> store_encrypted_ok] >>
                 ELSE <<>>
    IN  IF encrypt_ok /\ store_encrypted_ok
        THEN [status |-> 0, stored |-> first]
        ELSE [status |-> IF store_plain_ok THEN 0 ELSE 1,
              stored |-> Append(first, [value |-> "plain", ok |-> store_plain_ok])]

set_password(user, password_file, encrypt_ok, store_encrypted_ok, store_plain_ok) ==
    IF ~user \/ password_file # "ok"
    THEN [status |-> 1, stored |-> <<>>]
    ELSE keyring_save(encrypt_ok, store_encrypted_ok, store_plain_ok)

CallSetPassword ==
    /\ probe.op = "password_args"
    /\ probe' = [op |-> "set_password", user |-> probe.user,
                 password_file |-> probe.password_file,
                 encrypt_ok |-> probe.encrypt_ok,
                 store_encrypted_ok |-> probe.store_encrypted_ok,
                 store_plain_ok |-> probe.store_plain_ok,
                 result |-> set_password(probe.user, probe.password_file,
                                         probe.encrypt_ok, probe.store_encrypted_ok,
                                         probe.store_plain_ok)]
    /\ UNCHANGED << today, cfg, files, server, runVars, recordedBefore, ledgerAtStart,
                    savedOK, call, folder, crash >>

HelperNext ==
    \/ CallIsAllowedSender
    \/ CallResolveFolder
    \/ CallCleanup
    \/ CallImapConnect

HelperSpec == HelperInit /\ [][HelperNext]_vars

\* The SMTP side: one call of the splitter or of the folder branch on
\* arguments chosen at the start.
SendArgs ==
    {[op |-> "split_args", sizes |-> sizes, max_size_bytes |-> max_size_bytes] :
        sizes \in FileLists, max_size_bytes \in SizeLimits}
    \cup
    UNION {[op : {"send_args"}, all_files : {all_files}, sent : SUBSET Hashes,
            dry_run : BOOLEAN, outcomes : [DOMAIN all_files -> BOOLEAN]] :
              all_files \in SendFolders}
    \cup
    [op : {"password_args"}, user : BOOLEAN, password_file : PasswordFiles,
     encrypt_ok : BOOLEAN, store_encrypted_ok : BOOLEAN, store_plain_ok : BOOLEAN]

SendInit ==
    /\ InitRun
    /\ mailbox = <<>>
    /\ cfg.skip_non_allowed_as_processed
    /\ cfg.archive_only_mapped
    /\ cfg.keep_processed_days = 0
    /\ probe \in SendArgs

SendNext ==
    \/ CallSplitFiles
    \/ CallSendFolder
    \/ CallSetPassword

SendSpec == SendInit /\ [][SendNext]_vars

\* One target folder filled save by save.
FolderNext == SaveFile

FolderSpec == HelperInit /\ [][FolderNext]_vars

\* ------------------------------------------- a run after a terminated run
\* The pipeline over a mailbox of one message whose attachments all carry
\* the same filename, with the files of its target folder: the host may
\* terminate a run at any point, and what the termination left behind is
\* kept until the run after it has ended.

\* part.get_filename() of every attachment of the message.
AttachmentName == <<"r", ".", "p">>

RECURSIVE write_parts(_, _, _)
\* The walk over the parts: every part that is saved (none in a dry run) is
\* written to the path safe_save_path returns for its filename; the content
\* of a file is the number of the write.
write_parts(fld, parts, dr) ==
    IF parts = <<>> THEN fld
    ELSE IF save_attachment(Head(parts)) /\ ~dr
    THEN LET path == safe_save_path(DOMAIN fld, AttachmentName)
             content == Cardinality(DOMAIN fld) + 1
         IN write_parts(IF path \in DOMAIN fld
                        THEN [fld EXCEPT ![path] = content]
                        ELSE fld @@ (path :> content),
                        Tail(parts), dr)
    ELSE write_parts(fld, Tail(parts), dr)

RestartInit ==
    /\ Init
    /\ Len(mailbox) = 1
    /\ is_allowed_sender(mailbox[1].sender)
    /\ validate_path(target_name(mailbox[1].subject))
    /\ cfg.skip_non_allowed_as_processed

\* process(), lines 157-169, in the run after a termination and later.
RestartStartRun ==
    /\ pc = "idle"
    /\ \E dr \in BOOLEAN,
          undeletable \in SUBSET Expired(files, cfg.keep_processed_days, today) :
        /\ dry_run' = dr
        /\ files' = cleanup_old_processed_days(files, cfg.keep_processed_days,
                                               today, undeletable)
    /\ cache' = EmptyMap
    /\ pc' = "connect"
    /\ todo' = <<>>
    /\ counts' = Zero
    /\ cur' = NoCur
    /\ ops' = <<>>
    /\ ret' = ""
    /\ result' = NoResult
    /\ session' = <<>>
    /\ mail' = "none"
    /\ found' = <<>>
    /\ searched' = NoSearch
    /\ visited' = <<>>
    /\ logouts' = <<>>
    /\ recordedBefore' = recordedBefore \cup LedgerPairs(files)
    /\ ledgerAtStart' = LedgerPairs(files')
    /\ crash' = IF crash.phase = "killed" THEN [crash EXCEPT !.phase = "next"] ELSE NoCrash
    /\ UNCHANGED << today, cfg, mailbox, deleted, savedOK, call, probe, folder >>

\* Lines 435-447 with the files of the target folder: walk the parts and
\* write every attachment that is saved.
WriteAttachments ==
    /\ pc = "attachments"
    /\ \E parts \in Bodies, walk \in {"OK", "RAISE"} :
        /\ Cardinality(DOMAIN write_parts(folder, parts, dry_run)) <= MaxSaves
        /\ folder' = write_parts(folder, parts, dry_run)
        /\ cur' = [cur EXCEPT !.written = Cardinality({i \in 1..Len(parts) : save_attachment(parts[i])}),
                              !.failed = Cardinality({i \in 1..Len(parts) : ~save_attachment(parts[i])}),
                              !.blocked = Cardinality({i \in 1..Len(parts) : parts[i] = "blocked"})]
        /\ ops' = ops \o <<"WALK">> \o WriteOps(parts, dry_run)
        /\ IF walk = "OK"
           THEN pc' = "save_uid" /\ UNCHANGED ret
           ELSE Returns("error")
    /\ UNCHANGED << today, cfg, recordedBefore, ledgerAtStart, savedOK, call, probe, crash,
                    session, sessionVars, server, files, dry_run, cache, todo, counts,
                    result >>

\* The host terminates the process at an arbitrary point of a run; crash
\* keeps the pairs the ledger holds, the message in flight and the files of
\* the target folder at that point.
Kill ==
    /\ pc # "idle"
    /\ Return(NoResult)
    /\ crash' = [phase |-> "killed",
                 saved |-> LedgerPairs(files),
                 inflight |-> IF /\ cur.uid # <<>>
                                 /\ cur.day_str # ""
                                 /\ <<cur.uid, cur.day_str>> \notin LedgerPairs(files)
                              THEN {<<cur.uid, cur.day_str>>}
                              ELSE {},
                 written |-> DOMAIN folder]
    /\ UNCHANGED << today, cfg, files, mailbox, deleted, recordedBefore,
                    ledgerAtStart, savedOK, call, probe, folder, mail, logouts >>

RestartNext ==
    \/ Tick
    \/ RestartStartRun
    \/ Connect
    \/ SelectAndSearch
    \/ FetchUID
    \/ FetchHeader
    \/ Dedup
    \/ SenderFilter
    \/ Folder
    \/ FetchBody
    \/ WriteAttachments
    \/ SaveUID
    \/ Archive
    \/ Tally
    \/ Logout
    \/ Kill

RestartSpec == RestartInit /\ [][RestartNext]_vars

\* ------------------------------------------------------------------ claims
\* The operations that process a message: the full-body fetch, the write of
\* an attachment, the commands of the archive transition.
Processing == {"FETCH_BODY", "WRITE", "CREATE", "COPY", "STORE", "EXPUNGE"}

CurPair == <<cur.uid, cur.day_str>>

\* C1 as stated: once identifier u was recorded in bucket b (in an earlier
\* run), no run issues the full-body fetch, writes an attachment or archives
\* for the message with identifier u and bucket b.
C1_NeverProcessedAgain ==
    (Range(ops) \cap Processing # {}) => CurPair \notin recordedBefore

\* C1 amended: a pair the ledger still holds after the sweep of this run
\* (recorded earlier, its store not deleted by a sweep) is never processed in
\* this run.
C1_NotProcessedWhileStoreLives ==
    (Range(ops) \cap Processing # {}) => CurPair \notin ledgerAtStart

\* C1 witness: a message recorded by an earlier run is skipped at the dedup
\* check after the identifier fetch and the header fetch only.
C1_Witness ==
    /\ pc = "returned"
    /\ ret = "skipped"
    /\ CurPair \in ledgerAtStart
    /\ ops = <<"FETCH_UID", "FETCH_HEADER", "DEDUP">>

\* C2: every pair saved without error, whose store no sweep has deleted since,
\* is in what load_processed_for_day returns, with the cache of this run and
\* with the empty cache of a later run.
C2_SavedStaysLoadable ==
    \A p \in savedOK :
        /\ p[1] \in load_processed_for_day(files, p[2], cache, FALSE).uids
        /\ p[1] \in load_processed_for_day(files, p[2], EmptyMap, FALSE).uids

\* C2 witness: a later run (fresh cache, another day) with a pair saved before.
C2_Witness ==
    /\ savedOK # {}
    /\ cache = EmptyMap
    /\ today > 0

LinesHolding(fs, b, u) == Cardinality({i \in 1..Len(fs[b]) : Strip(fs[b][i]) = u})

\* C3: a saved identifier is held by exactly one line of its store, no
\* identifier by more than one; the second save of a pair changes nothing in
\* the store and raises no error (short of an I/O fault reading the store).
C3_SaveIdempotent ==
    /\ \A p \in savedOK : LinesHolding(files, p[2], p[1]) = 1
    /\ \A b \in DOMAIN files : \A u \in LedgerIds : LinesHolding(files, b, u) <= 1
    /\ (call.op = "save" /\ call.again) => (~call.changed /\ (call.ok \/ call.rfaulted))

\* C3 witness: the second save of a pair has returned without error.
C3_Witness ==
    /\ call.op = "save"
    /\ call.again
    /\ call.ok

\* The sender is in the allow-set, compared without regard to case.
SenderInAllowSet(sender) == \E a \in allowed_senders : lower(a) = lower(sender)

\* C4: the full-body fetch is issued only after the identifier fetch, the
\* header fetch, the dedup check, the sender filter and the validation of the
\* target folder, in this order and each passed; never for a message the
\* ledger holds, nor for a sender outside the allow-set.
C4_BodyFetchAfterFilters ==
    \A i \in 1..Len(ops) :
        ops[i] = "FETCH_BODY" =>
            /\ SubSeq(ops, 1, i - 1) =
                   <<"FETCH_UID", "FETCH_HEADER", "DEDUP", "SENDER_OK", "FOLDER_OK", "MKDIR">>
            /\ SenderInAllowSet(cur.sender)
            /\ cur.target # <<".", ".">>
            /\ ("SAVE" \notin Range(ops) => CurPair \notin LedgerPairs(files))

\* C4 witness: the full-body fetch has been issued for a message.
C4_Witness ==
    /\ pc = "attachments"
    /\ "FETCH_BODY" \in Range(ops)

\* _process_email has returned "error" or raised, and the process goes on.
FailedMessageCounted ==
    /\ pc \in {"returned", "raised"}
    /\ pc = "raised" \/ ret = "error"
    /\ pc' # "idle"

\* C5: when _process_email returns "error" or raises, the error count grows
\* by exactly one, the other counts stay, and the loop goes on with the next
\* sequence number (to the logout only when none is left); the run then
\* returns a result holding the counts.
C5_FailureDoesNotAbortRun ==
    [][/\ FailedMessageCounted =>
            /\ counts' = [counts EXCEPT !.errors = @ + 1]
            /\ todo' = Tail(todo)
            /\ pc' = IF Tail(todo) = <<>> THEN "logout" ELSE "fetch_uid"
       /\ (pc = "logout" /\ result'.returned) =>
            /\ result'.errors = counts.errors
            /\ result'.processed = counts.processed
            /\ result'.skipped = counts.skipped]_vars

\* C5 witness: after a message that raised, the next message is being fetched.
C5_Witness ==
    /\ pc = "fetch_uid"
    /\ counts.errors = 1
    /\ counts.processed + counts.skipped = 0

\* The parts of the message were walked and its ledger record succeeded.
WalkedAndRecorded ==
    /\ pc = "returned"
    /\ "WALK" \in Range(ops)
    /\ "SAVE" \in Range(ops)

\* C6 as stated: after the walk and a successful record the outcome is
\* "processed" if an attachment was written, "error" if attachments were
\* attempted, none written and none blocked by policy, "skipped" otherwise
\* (all blocked included).
C6_OutcomeByAttachments ==
    WalkedAndRecorded =>
        ret = IF cur.written > 0 THEN "processed"
              ELSE IF cur.failed > 0 /\ cur.blocked = 0 THEN "error"
              ELSE "skipped"

\* C7: when the record after the walk of the parts fails, the outcome is
\* "error", attachments written or not, and no archive command is issued.
C7_RecordFailureIsError ==
    (pc \in {"returned", "raised", "archive"} /\ "WALK" \in Range(ops)
        /\ "SAVE_FAILED" \in Range(ops)) =>
        /\ pc = "returned"
        /\ ret = "error"
        /\ Range(ops) \cap {"CREATE", "COPY", "STORE", "EXPUNGE"} = {}

\* C7 witness: the record failed after an attachment was written.
C7_Witness ==
    /\ pc = "returned"
    /\ "SAVE_FAILED" \in Range(ops)
    /\ "WRITE" \in Range(ops)
    /\ cur.written > 0

\* C8 as stated: when the full-body fetch fails (status not OK, empty
\* response) or returns an empty body, the outcome is "skipped" and, unless
\* the ledger write failed, the ledger holds the identifier afterwards.
C8_FetchMissRecorded ==
    (pc = "returned" /\ cur.body_resp \in {"NO", "EMPTY", "NOBYTES"}) =>
        /\ ret = "skipped"
        /\ "SAVE_FAILED" \notin Range(ops) => CurPair \in LedgerPairs(files)

\* C9: a failure of the best-effort record (rejected sender, full-body fetch
\* miss) leaves the outcome "skipped" and does not leave _process_email as
\* an exception.
C9_BestEffortRecord ==
    ("SAVE_FAILED" \in Range(ops) /\ "WALK" \notin Range(ops)) =>
        /\ pc = "returned"
        /\ ret = "skipped"

\* C9 witness: the record of a rejected sender has failed.
C9_Witness ==
    /\ pc = "returned"
    /\ "SAVE_FAILED" \in Range(ops)
    /\ ~SenderInAllowSet(cur.sender)

\* The identifier fetch of the message has failed.
PhaseAFailed ==
    /\ pc \in {"returned", "raised"}
    /\ cur.uid_resp \in {"NO", "EMPTY", "NOUID", "BADSHAPE", "RAISE"}

\* C10 as stated: every failure of the identifier fetch yields "skipped" and
\* no further fetch.
C10_PhaseAFailureSkipped ==
    PhaseAFailed => (pc = "returned" /\ ret = "skipped" /\ ops = <<"FETCH_UID">>)

\* C10 amended: a status other than OK, no data, or a response without a UID
\* yields "skipped"; a fetch that raises or a response that cannot be decoded
\* yields "error"; in every case no further fetch is issued.
C10_PhaseAFailureOutcome ==
    PhaseAFailed =>
        /\ pc = "returned"
        /\ ops = <<"FETCH_UID">>
        /\ ret = IF cur.uid_resp \in {"NO", "EMPTY", "NOUID"} THEN "skipped" ELSE "error"

\* C10 witness: the identifier fetch raised and the outcome is "error".
C10_Witness ==
    /\ pc = "returned"
    /\ cur.uid_resp = "RAISE"
    /\ ret = "error"

\* The header fetch of the message has failed.
PhaseBFailed ==
    /\ pc \in {"returned", "raised"}
    /\ cur.header_resp \in {"NO", "EMPTY", "NOBYTES", "BADSHAPE", "RAISE"}

C12_ReadFailureNonFatal ==
    "LOAD_FAILED" \in Range(ops) =>
        ~(pc = "returned" /\ ret = "error" /\ ops[Len(ops)] = "LOAD_FAILED")

\* C12 amended: a failure to read the store of the bucket at the dedup check
\* ends the message with "error", and nothing is done for it after the check.
C12_ReadFailureIsError ==
    "LOAD_FAILED" \in Range(ops) =>
        /\ pc = "returned"
        /\ ret = "error"
        /\ ops = <<"FETCH_UID", "FETCH_HEADER", "DEDUP", "LOAD_FAILED">>

\* C12 witness: the read of the store failed for a message being deduplicated.
C12_Witness ==
    /\ pc = "returned"
    /\ ops # <<>>
    /\ ops[Len(ops)] = "LOAD_FAILED"

\* The message has passed the header fetch and its sender is outside the
\* allow-set.
SenderOutsideAllowSet ==
    /\ cur.header_resp = "OK"
    /\ ~SenderInAllowSet(cur.sender)

\* C13: for a message whose sender is outside the allow-set no directory is
\* created, no full-body fetch and no archive command is issued and no file
\* is written; once the sender filter has rejected it the outcome is
\* "skipped"; its identifier is recorded exactly when
\* skip_non_allowed_as_processed is set (and the write to the ledger did not
\* fail): without the flag no record is attempted and the ledger does not
\* hold the identifier.
C13_RejectedSenderSkipped ==
    /\ SenderOutsideAllowSet =>
          /\ Range(ops) \cap ({"SENDER_OK", "MKDIR", "WALK"} \cup Processing) = {}
          /\ pc \notin {"folder", "fetch_body", "attachments", "save_uid", "archive"}
    /\ "SENDER_REJECTED" \in Range(ops) =>
          /\ SenderOutsideAllowSet
          /\ pc = "returned"
          /\ ret = "skipped"
          /\ IF cfg.skip_non_allowed_as_processed
             THEN /\ ops[Len(ops)] \in {"SAVE", "SAVE_FAILED"}
                  /\ ops[Len(ops)] = "SAVE" => CurPair \in LedgerPairs(files)
             ELSE /\ ops[Len(ops)] = "SENDER_REJECTED"
                  /\ CurPair \notin LedgerPairs(files)
    /\ (pc = "returned" /\ SenderOutsideAllowSet /\ ops[Len(ops)] = "DEDUP" /\ ret = "skipped")
          => CurPair \in LedgerPairs(files)

\* C13 witness: a rejected sender was skipped without a record, the flag
\* being off.
C13_Witness ==
    /\ pc = "returned"
    /\ ret = "skipped"
    /\ ~cfg.skip_non_allowed_as_processed
    /\ "SENDER_REJECTED" \in Range(ops)
    /\ ~SenderInAllowSet(cur.sender)

\* The target folder of the message resolves outside the download root: it
\* is the parent of the root or an absolute path.
TargetEscapes ==
    /\ cur.target # <<>>
    /\ cur.target = <<".", ".">> \/ Head(cur.target) = "/"

\* C16: when the target folder (a mapped folder or the normalized subject)
\* resolves outside the download root, the outcome is "error", and for this
\* message no directory is created, no full-body fetch is issued, no file is
\* written and nothing is recorded in the ledger.
C16_PathEscapeRejected ==
    TargetEscapes =>
        /\ pc = "returned"
        /\ ret = "error"
        /\ ops = <<"FETCH_UID", "FETCH_HEADER", "DEDUP", "SENDER_OK">>
        /\ CurPair \notin LedgerPairs(files)

\* C16 witness: a mapped folder that is an absolute path was rejected.
C16_Witness ==
    /\ pc = "returned"
    /\ ret = "error"
    /\ cur.mapped_folder # <<>>
    /\ Head(cur.mapped_folder) = "/"
    /\ cur.target = cur.mapped_folder

\* Two addresses are equal but for the case of their letters.
SameButForCase(a, b) ==
    /\ Len(a) = Len(b)
    /\ \A i \in 1..Len(a) : Lower(a[i]) = Lower(b[i])

\* C14: the sender filter accepts a sender exactly when some entry of the
\* allow-set equals it but for the case of the letters; with an empty
\* allow-set it accepts no sender.
C14_SenderFilterExact ==
    probe.op = "in_allowed_lower" =>
        /\ probe.result = (\E a \in probe.senders : SameButForCase(a, probe.sender))
        /\ probe.senders = {} => ~probe.result
        /\ (probe.sender = <<"B", "@", "X">> /\ <<"B", "@", "x">> \in probe.senders)
              => probe.result
        /\ (probe.sender = <<"b", "@", "x">> /\ probe.senders = {<<"b", "@", "x", "x">>})
              => ~probe.result

\* C14 witness: the filter was called with an empty allow-set and rejected a
\* non-empty sender address.
C14_Witness ==
    /\ probe.op = "in_allowed_lower"
    /\ probe.senders = {}
    /\ probe.sender = <<"b", "@", "x">>
    /\ ~probe.result

\* The pattern occurs somewhere in the subject, case disregarded (".*"
\* occurs in every subject).
Occurs(pattern, subject) ==
    \/ pattern = <<".", "*">>
    \/ \E i \in 0..Len(subject), j \in 0..Len(subject) :
          /\ i <= j
          /\ j - i = Len(pattern)
          /\ \A k \in 1..Len(pattern) : Lower(subject[i + k]) = Lower(pattern[k])

\* C15: resolve_custom_folder returns the folder of the first pair, in the
\* configured order, whose pattern occurs in the subject (case disregarded,
\* anywhere in the subject), and None (<<>>) when no pattern occurs; a later
\* pair never overrides an earlier one.
C15_FirstMatchWins ==
    probe.op = "resolve_custom_folder" =>
        LET m == probe.mapping
            hits == {i \in 1..Len(m) : Occurs(m[i].pattern, probe.subject)}
        IN
        /\ hits = {} => probe.result = <<>>
        /\ hits # {} =>
              \E i \in hits : /\ \A j \in hits : i <= j
                               /\ probe.result = m[i].folder
        /\ (m = << [pattern |-> <<"i", "n", "v">>, folder |-> <<"A">>],
                    [pattern |-> <<".", "*">>, folder |-> <<"B">>] >>)
              => probe.result = IF probe.subject = <<"M", " ", "I", "n", "v">>
                                THEN <<"A">> ELSE <<"B">>

\* C15 witness: two patterns match the subject and the first pair's folder
\* was returned.
C15_Witness ==
    /\ probe.op = "resolve_custom_folder"
    /\ probe.subject = <<"M", " ", "I", "n", "v">>
    /\ probe.mapping = << [pattern |-> <<"i", "n", "v">>, folder |-> <<"A">>],
                          [pattern |-> <<".", "*">>, folder |-> <<"B">>] >>
    /\ probe.result = <<"A">>

\* The name base_NN.ext of filename for counter n.
Numbered(filename, n) ==
    LET dot == CHOOSE i \in 0..Len(filename) :
                   /\ i > 0 => filename[i] = "."
                   /\ \A j \in (i + 1)..Len(filename) : filename[j] # "."
        cut == IF dot <= 1 THEN Len(filename) ELSE dot - 1
        two == << Digits[(n \div 10) + 1], Digits[(n % 10) + 1] >>
    IN SubSeq(filename, 1, cut) \o <<"_">> \o two \o SubSeq(filename, cut + 1, Len(filename))

\* C17: safe_save_path never returns the name of an existing file: it
\* returns the filename when that is free, otherwise base_NN.ext for the
\* smallest counter N >= 1 whose name is free; and no save changes or removes
\* a file written before.
C17_NoOverwrite ==
    /\ [](probe.op = "safe_save_path" =>
            /\ probe.result \notin probe.names
            /\ probe.filename \notin probe.names => probe.result = probe.filename
            /\ probe.filename \in probe.names =>
                  \E n \in 1..(MaxSaves + 2) :
                      /\ probe.result = Numbered(probe.filename, n)
                      /\ \A k \in 1..(n - 1) : Numbered(probe.filename, k) \in probe.names
            /\ (probe.filename = <<"r", ".", "p">> /\ probe.names = {<<"r", ".", "p">>})
                  => probe.result = <<"r", "_", "0", "1", ".", "p">>
            /\ (probe.filename = <<"r", ".", "p">>
                   /\ probe.names = {<<"r", ".", "p">>, <<"r", "_", "0", "1", ".", "p">>})
                  => probe.result = <<"r", "_", "0", "2", ".", "p">>)
    /\ [][\A name \in DOMAIN folder :
              name \in DOMAIN folder' /\ folder'[name] = folder[name]]_vars

\* C17 witness: the third save of the same filename went to base_02.ext and
\* the two files written before are as they were written.
C17_Witness ==
    /\ probe.op = "safe_save_path"
    /\ probe.filename = <<"r", ".", "p">>
    /\ probe.result = <<"r", "_", "0", "2", ".", "p">>
    /\ DOMAIN folder = {<<"r", ".", "p">>, <<"r", "_", "0", "1", ".", "p">>,
                        <<"r", "_", "0", "2", ".", "p">>}
    /\ folder[<<"r", ".", "p">>] = 1
    /\ folder[<<"r", "_", "0", "1", ".", "p">>] = 2
    /\ folder[<<"r", "_", "0", "2", ".", "p">>] = 3

\* The store is named after a day strictly older than now - keep_days.
StrictlyOlder(name, keep_days, now) ==
    \E d \in 0..(Len(ISO) - 1) : ISO[d + 1] = name /\ d + keep_days < now

\* C18: a sweep with keep_days > 0 removes the stores named after a day
\* strictly older than today - keep_days (all of them but those whose
\* os.remove failed) and no other store: not one dated today - keep_days or
\* newer, not "nodate", not a store whose name is no date; the stores left
\* are unchanged; with keep_days <= 0 nothing is removed.
C18_SweepRemovesOnlyOlder ==
    probe.op = "cleanup_old_processed_days" =>
        LET removed == DOMAIN probe.fs \ DOMAIN probe.result
            older == {n \in DOMAIN probe.fs : StrictlyOlder(n, probe.keep_days, probe.now)}
        IN
        /\ DOMAIN probe.result \subseteq DOMAIN probe.fs
        /\ \A n \in DOMAIN probe.result : probe.result[n] = probe.fs[n]
        /\ probe.keep_days <= 0 => removed = {}
        /\ probe.keep_days > 0 => removed = older \ probe.undeletable
        /\ removed \cap {"nodate", "notes"} = {}
        /\ (probe.keep_days = 1 /\ probe.now = 2) => "2024-01-02" \notin removed

\* C18 witness: a sweep removed the store of the day before the horizon and
\* kept the store dated exactly today - keep_days, "nodate" and "notes".
C18_Witness ==
    /\ probe.op = "cleanup_old_processed_days"
    /\ probe.keep_days = 1
    /\ probe.now = 2
    /\ DOMAIN probe.fs = {"2024-01-01", "2024-01-02", "nodate", "notes"}
    /\ DOMAIN probe.result = {"2024-01-02", "nodate", "notes"}

\* The number of events e among the events of a call.
Times(events, e) == Cardinality({i \in 1..Len(events) : events[i] = e})

\* C20: imap_connect makes at most max_retries login attempts; it returns
\* the session at the first attempt that succeeds and makes no further one;
\* when every attempt fails it sleeps between two attempts only
\* (max_retries - 1 times, never after the last attempt) and then raises
\* ConnectionError.
C20_ConnectRetries ==
    probe.op = "imap_connect" =>
        LET ev == probe.result.events
            good == {a \in 1..probe.retries : probe.outcomes[a]}
        IN
        /\ Times(ev, "LOGIN") <= probe.retries
        /\ \A i \in 1..Len(ev) : ev[i] = (IF i % 2 = 1 THEN "LOGIN" ELSE "SLEEP")
        /\ ev # <<>> => ev[Len(ev)] = "LOGIN"
        /\ good # {} =>
              /\ probe.result.result = "mail"
              /\ \A a \in good : Times(ev, "LOGIN") <= a
              /\ Times(ev, "LOGIN") \in good
        /\ good = {} =>
              /\ probe.result.result = "ConnectionError"
              /\ Times(ev, "LOGIN") = probe.retries
              /\ Times(ev, "SLEEP") = IF probe.retries > 0 THEN probe.retries - 1 ELSE 0

\* C20 witness: every one of three attempts failed.
C20_Witness ==
    /\ probe.op = "imap_connect"
    /\ probe.retries = 3
    /\ probe.result.result = "ConnectionError"
    /\ probe.result.events = <<"LOGIN", "SLEEP", "LOGIN", "SLEEP", "LOGIN">>

\* The run was cut short by a failure of select or of search.
SessionFailed ==
    session # <<>> /\ session[Len(session)] \in {"SELECT_FAILED", "SEARCH_FAILED"}

\* C19: when the session cannot be established, or select fails, or search
\* fails, the run returns a result with processed = skipped = errors = 0 and
\* nothing is done for any message: no fetch, no write of an attachment, no
\* write to the ledger, no archive command; after a failure of select no
\* search is issued.
C19_SessionFailureAbortsRun ==
    /\ [](SessionFailed =>
            /\ pc = "logout"
            /\ counts = Zero
            /\ ops = <<>> /\ cur = NoCur /\ todo = <<>>
            /\ LedgerPairs(files) = ledgerAtStart)
    /\ [](session # <<>> /\ session[1] = "SELECT_FAILED" => Len(session) = 1)
    /\ [][/\ (pc = "logout" /\ SessionFailed /\ result'.returned) =>
               /\ result' = [returned |-> TRUE, processed |-> 0, skipped |-> 0, errors |-> 0]
               /\ files' = files /\ mailbox' = mailbox /\ deleted' = deleted
          /\ (pc = "connect" /\ pc' = "idle" /\ result'.returned) =>
               /\ result' = [returned |-> TRUE, processed |-> 0, skipped |-> 0, errors |-> 0]
               /\ files' = files /\ mailbox' = mailbox /\ deleted' = deleted]_vars

\* C19 witness: select succeeded, search failed, and the run is about to
\* return with a mailbox that holds messages.
C19_Witness ==
    /\ pc = "logout"
    /\ session = <<"SELECT", "SEARCH_FAILED">>
    /\ mailbox # <<>>

\* The commands of the archive transition.
ArchiveCommands == {"CREATE", "COPY", "STORE", "EXPUNGE"}

\* Some pattern of the topic mapping occurs in the subject of the message.
SubjectMapped ==
    \E i \in 1..Len(topic_mapping) : Occurs(topic_mapping[i].pattern, cur.subject)

\* C21: an archive command (create, COPY, STORE, EXPUNGE) is issued for a
\* message only if its subject matched a topic mapping, archive_only_mapped
\* is set and the run is not a dry run; a message that went through the
\* ledger record without these three has no archive command issued.
C21_ArchiveOnlyMappedLiveRun ==
    /\ (Range(ops) \cap ArchiveCommands # {} \/ cur.archive_resp # <<>>) =>
          /\ SubjectMapped
          /\ cfg.archive_only_mapped
          /\ ~dry_run
    /\ (pc = "returned" /\ ~(SubjectMapped /\ cfg.archive_only_mapped /\ ~dry_run)) =>
          /\ Range(ops) \cap ArchiveCommands = {}
          /\ cur.archive_resp = <<>>

\* C21 witness: a mapped message was archived in a run that is not a dry run.
C21_Witness ==
    /\ pc = "returned"
    /\ SubjectMapped
    /\ cfg.archive_only_mapped
    /\ ~dry_run
    /\ ops = <<"FETCH_UID", "FETCH_HEADER", "DEDUP", "SENDER_OK", "FOLDER_OK", "MKDIR",
               "FETCH_BODY", "WALK", "SAVE", "CREATE", "COPY", "STORE", "EXPUNGE">>

\* The archive transition of the message failed: a command had a status
\* other than OK or raised.
ArchiveFailed ==
    \E i \in 1..Len(cur.archive_resp) : cur.archive_resp[i] # "OK"

\* C22: a failure of the archive transition leaves the outcome what the
\* attachments decide, the value a message with a successful archive gets
\* ("processed" with an attachment written, else "error" with a failed one,
\* else "skipped"), and the ledger keeps the record made before the archive.
C22_ArchiveFailureKeepsOutcome ==
    /\ (pc = "returned" /\ "WALK" \in Range(ops) /\ "SAVE" \in Range(ops)) =>
          ret = final_outcome(cur.written, cur.failed)
    /\ ArchiveFailed =>
          /\ pc = "returned"
          /\ ret \in {"processed", "skipped", "error"}
          /\ ret = "processed" <=> cur.written > 0
          /\ "SAVE" \in Range(ops)
          /\ CurPair \in LedgerPairs(files)

\* C22 witness: archive_message raised for a message with a written
\* attachment, and the outcome is "processed".
C22_Witness ==
    /\ pc = "returned"
    /\ cur.archive_raised
    /\ cur.written > 0
    /\ ret = "processed"

\* The archive commands issued for the message, in order.
ArchiveIssued == SelectSeq(ops, LAMBDA o : o \in ArchiveCommands)

\* C23 as stated: archive_message issues create, COPY, STORE, EXPUNGE in
\* this order; a failure of COPY, STORE or EXPUNGE (a status other than OK or
\* an exception) ends the commands for the message, and no exception leaves
\* archive_message.
C23_ArchiveStepsAbortOnFailure ==
    cur.archive_resp # <<>> =>
        /\ ArchiveIssued = SubSeq(<<"CREATE", "COPY", "STORE", "EXPUNGE">>, 1, Len(ArchiveIssued))
        /\ Len(ArchiveIssued) = Len(cur.archive_resp) + 1
        /\ \A i \in 1..Len(cur.archive_resp) :
              cur.archive_resp[i] # "OK" => i = Len(cur.archive_resp)
        /\ ~cur.archive_raised

\* The positions of a run at which a message is being processed.
MessageStates ==
    {"fetch_uid", "fetch_header", "dedup", "sender", "folder", "fetch_body",
     "attachments", "save_uid", "archive", "returned", "raised"}

\* The sequence s read from its end.
Rev(s) == [i \in 1..Len(s) |-> s[Len(s) + 1 - i]]

\* The outcomes counted so far in the run.
Counted == counts.processed + counts.skipped + counts.errors

\* C24: the messages the search returned are processed one after the other
\* in the reverse of the order of the search, the last sequence number first
\* and each exactly once; when the processing of a message begins, the
\* outcome of every message before it has been decided and counted, and the
\* operations issued are those of the current message.
C24_ReverseOrderOneByOne ==
    /\ \A i, j \in 1..Len(found) : i < j => found[i] # found[j]
    /\ pc \in MessageStates =>
          /\ visited # <<>>
          /\ todo # <<>>
          /\ cur.msg_id = Head(todo)
          /\ cur.msg_id = visited[Len(visited)]
          /\ visited \o Tail(todo) = Rev(found)
          /\ Counted = Len(visited) - 1
    /\ (pc = "logout" /\ session # <<>> /\ session[Len(session)] = "SEARCH") =>
          /\ todo = <<>>
          /\ visited = Rev(found)
          /\ Counted = Len(found)
    /\ pc = "fetch_uid" => (ops = <<>> /\ ret = "")
    /\ ops # <<>> => pc \in MessageStates

\* C24 witness: the search returned two sequence numbers, the second was
\* processed first and its outcome counted, and the first is about to be
\* fetched.
C24_Witness ==
    /\ pc = "fetch_uid"
    /\ found = <<1, 2>>
    /\ visited = <<2, 1>>
    /\ Counted = 1

\* The fetch commands issued for the current message, in order.
Fetches == SelectSeq(ops, LAMBDA o : o \in {"FETCH_UID", "FETCH_HEADER", "FETCH_BODY"})

\* C25: the fetch commands issued for a message are a prefix of (identifier
\* fetch, header fetch, full-body fetch), each at most once; a fetch that
\* failed is the last one for the message; and no message is processed a
\* second time in the run.
C25_NoFetchRetry ==
    /\ Fetches = SubSeq(<<"FETCH_UID", "FETCH_HEADER", "FETCH_BODY">>, 1, Len(Fetches))
    /\ \A i, j \in 1..Len(visited) : i # j => visited[i] # visited[j]
    /\ cur.uid_resp \notin {"", "OK"} =>
          (pc = "returned" /\ Fetches = <<"FETCH_UID">>)
    /\ cur.header_resp \notin {"", "OK"} =>
          (pc \in {"returned", "raised"} /\ Fetches = <<"FETCH_UID", "FETCH_HEADER">>)
    /\ cur.body_resp \notin {"", "OK"} =>
          (pc = "returned" /\ Fetches = <<"FETCH_UID", "FETCH_HEADER", "FETCH_BODY">>)

\* C25 witness: the first message processed ended in an error and the run
\* went on; the full-body fetch of the second message raised after one
\* fetch of each kind.
C25_Witness ==
    /\ pc = "returned"
    /\ visited = <<2, 1>>
    /\ counts.errors = 1
    /\ cur.body_resp = "RAISE"
    /\ Fetches = <<"FETCH_UID", "FETCH_HEADER", "FETCH_BODY">>

\* C27: a run that had a session calls logout exactly once, after everything
\* else of the run (no fetch, no archive command and no ledger write follows
\* it), whether the run ended by a failure of select, a failure of search or
\* after the last message; the result returned holds the counts the run had
\* when logout was called, whether logout raised or not; a run without a
\* session calls no logout.
C27_LogoutOncePerSession ==
    /\ pc # "idle" => logouts = <<>>
    /\ mail = "none" => logouts = <<>>
    /\ Len(logouts) <= 1
    /\ result.returned =>
          /\ Len(logouts) = IF mail = "mail" THEN 1 ELSE 0
          /\ logouts # <<>> =>
                result = [returned |-> TRUE,
                          processed |-> logouts[1].counts.processed,
                          skipped |-> logouts[1].counts.skipped,
                          errors |-> logouts[1].counts.errors]

\* C27 witness: logout raised at the end of a run that processed a message,
\* and the run returned its counts.
C27_Witness ==
    /\ pc = "idle"
    /\ result.returned
    /\ result.processed = 1
    /\ Len(logouts) = 1
    /\ logouts[1].outcome = "RAISE"

\* C30: when the identifier fetch, the header fetch or the full-body fetch
\* raises, the outcome is "error", no write to the ledger is attempted for
\* the message (after a full-body fetch that raised the ledger does not hold
\* its identifier) and no archive command is issued.
C30_FetchExceptionIsError ==
    (cur.uid_resp = "RAISE" \/ cur.header_resp = "RAISE" \/ cur.body_resp = "RAISE") =>
        /\ pc = "returned"
        /\ ret = "error"
        /\ Range(ops) \cap ({"SAVE", "SAVE_FAILED"} \cup ArchiveCommands) = {}
        /\ cur.archive_resp = <<>>
        /\ ops[Len(ops)] \in {"FETCH_UID", "FETCH_HEADER", "FETCH_BODY"}
        /\ cur.body_resp = "RAISE" => CurPair \notin LedgerPairs(files)

\* C30 witness: the full-body fetch raised for a message routed to a mapped
\* folder in a run that archives.
C30_Witness ==
    /\ pc = "returned"
    /\ cur.body_resp = "RAISE"
    /\ cur.mapped_folder # <<>>
    /\ cfg.archive_only_mapped
    /\ ~dry_run
    /\ ret = "error"

\* The run is the one started after a terminated run.
AfterKill == crash.phase = "next" /\ pc # "idle"

\* The dedup check of the current message was made and the store was read.
DedupDone == "DEDUP" \in Range(ops) /\ "LOAD_FAILED" \notin Range(ops)

\* The current message was skipped at the dedup check.
SkippedAtDedup ==
    /\ pc = "returned"
    /\ ret = "skipped"
    /\ ops = <<"FETCH_UID", "FETCH_HEADER", "DEDUP">>

\* The k-th file written to the target folder is there with the content it
\* was written with, under the filename or under base_NN.ext.
NothingOverwritten ==
    /\ {folder[n] : n \in DOMAIN folder} = 1..Cardinality(DOMAIN folder)
    /\ \A n \in DOMAIN folder :
          \/ n = AttachmentName
          \/ \E k \in 1..(MaxSaves + 1) : n = Numbered(AttachmentName, k)

SplitReturned ==
    probe.op = "split_files_by_size" /\ ~probe.result.raised

\* the estimate of one group: the sum of its sizes plus the 33% overhead
GroupEstimate(group) ==
    total_file_size(group) + (total_file_size(group) * 33) \div 100

\* C29: whenever split_files_by_size returns without raising ValueError, the
\* estimated email size of every returned group (its file sizes plus the 33%
\* MIME overhead) is at most the size limit in bytes.
C29_EveryGroupFits ==
    SplitReturned =>
        \A i \in DOMAIN probe.result.groups :
            GroupEstimate(probe.result.groups[i]) <= probe.max_size_bytes


\* ---- C28 ----
SendFolderDone == probe.op = "send_folder"

SendCalls == probe.result.calls

SentTo(file_path) ==
    \E k \in DOMAIN SendCalls : SendCalls[k].file = file_path /\ SendCalls[k].success

MarkedIffSuccess ==
    \A file_path \in DOMAIN probe.all_files :
        (file_path \in Range(probe.result.marked)) <=> SentTo(file_path)

NoSentFilePassed ==
    \A k \in DOMAIN SendCalls :
        ~is_sent(SendCalls[k].sent, probe.all_files[SendCalls[k].file])

StatusIffFailure ==
    (probe.result.status # 0) <=> (\E k \in DOMAIN SendCalls : ~SendCalls[k].success)

\* C28: in --send-folder mode of a non-dry run a file is recorded as sent
\* (mark_as_sent) exactly when send_file returned success for it, no file
\* already recorded as sent is passed to send_file, and the exit status is
\* non-zero exactly when a send failed; a dry run records nothing as sent.
C28_SendFolderContract ==
    SendFolderDone =>
        /\ ~probe.dry_run => (MarkedIffSuccess /\ NoSentFilePassed /\ StatusIffFailure)
        /\ probe.dry_run => (probe.result.marked = <<>> /\ probe.result.sent = probe.sent)

\* the parts of C28 other than the one about files already recorded
SendFolderOtherParts ==
    SendFolderDone =>
        /\ ~probe.dry_run => (MarkedIffSuccess /\ StatusIffFailure)
        /\ probe.dry_run => (probe.result.marked = <<>> /\ probe.result.sent = probe.sent)


\* ---- C31 ----
HeaderPayloadEmpty ==
    pc = "returned" /\ cur.uid_resp = "OK" /\ cur.header_resp = "NOBYTES"

\* C31: when the header fetch returns status OK with an empty header payload,
\* the message's outcome is "skipped" and neither a dedup check, a ledger
\* write, a folder creation nor a full-body fetch is performed for it.
C31_EmptyHeaderSkipped ==
    HeaderPayloadEmpty =>
        /\ ret = "skipped"
        /\ Range(ops) \cap {"DEDUP", "SAVE", "SAVE_FAILED", "MKDIR", "FETCH_BODY"} = {}
        /\ ops = <<"FETCH_UID", "FETCH_HEADER">>

C31_Witness ==
    /\ HeaderPayloadEmpty
    /\ ret = "skipped"
    /\ Len(mailbox) = MaxMsgs


\* ---- C32 ----
\* the identifiers the durable store of bucket b holds
StoreIds(b) == IF b \in DOMAIN files THEN ReadLines(files[b]) ELSE {}

\* C32: within a run the store of a bucket is read at most once, and for
\* every bucket in the cache of the run the cached set is the set of
\* identifiers in the store of the bucket.
C32_CacheCoherent ==
    /\ ~call.reread
    /\ \A b \in DOMAIN cache : cache[b] = StoreIds(b)

\* a store read on first touch, then touched again by a save that extends it
C32_Witness ==
    /\ call.op = "save"
    /\ call.changed
    /\ \E b \in call.reads : b \in DOMAIN cache /\ Cardinality(cache[b]) = 2


\* ---- C33 ----
AppendFailed == call.op = "save" /\ ~call.ok /\ ~call.rfaulted

\* C33: when the append of save_processed_uid_for_day fails, the call ends in
\* an error, the store is unchanged and the identifier is in neither the
\* store nor the cached set of the bucket; a later save of the same
\* identifier in the same run is not taken as done: when it succeeds it has
\* written the store.
C33_FailedAppendNotCached ==
    /\ AppendFailed => (~call.changed /\ call.lost # <<>>)
    /\ call.lost # <<>> =>
          /\ call.lost \notin LedgerPairs(files)
          /\ call.lost[2] \in DOMAIN cache
          /\ call.lost[1] \notin cache[call.lost[2]]
    /\ (call.op = "save" /\ call.retried /\ call.ok) =>
          (call.changed /\ call.lost = <<>>)

\* the save of an identifier whose append failed earlier in the run
C33_Witness ==
    /\ call.op = "save"
    /\ call.retried
    /\ call.ok
    /\ call.changed


\* ---- C34 ----
\* the messages of the search whose outcome has been decided and counted
Handled == Len(found) - Len(todo)

MsgPair(m) == <<m.uid, DayStr(m.date)>>

\* the current message is recorded: the save of this run succeeded and the
\* store holds the pair
RecordedInRun ==
    /\ "SAVE" \in Range(ops)
    /\ "SAVE_FAILED" \notin Range(ops)
    /\ CurPair \in LedgerPairs(files)

ArchiveAfterRecord ==
    (Range(ops') \cap ArchiveCommands # {}) => (pc = "archive" /\ RecordedInRun)

\* C35 as stated: an archive operation is issued for a message only after
\* its identifier was successfully recorded in the ledger in the same run,
\* and no message leaves the mailbox without a record in the ledger.
C35_LedgerBeforeArchive ==
    [][/\ ArchiveAfterRecord
       /\ \A i \in DOMAIN mailbox :
            mailbox[i] \notin Range(mailbox') => MsgPair(mailbox[i]) \in LedgerPairs(files)]_vars

\* C35, amended: an archive operation is issued for a message only after its
\* identifier was successfully recorded in the ledger in the same run, and no
\* message leaves the mailbox without its identifier having been recorded in
\* the ledger (by this run or an earlier one, whatever the sweep did since).
C35_LedgerBeforeArchiveOnceRecorded ==
    [][/\ ArchiveAfterRecord
       /\ \A i \in DOMAIN mailbox :
            mailbox[i] \notin Range(mailbox') =>
                MsgPair(mailbox[i]) \in recordedBefore \cup LedgerPairs(files)]_vars

\* an EXPUNGE of this run has removed a message that an earlier run recorded
\* and flagged, and whose store the sweep has deleted since
C35_Witness ==
    /\ pc = "returned"
    /\ "EXPUNGE" \in Range(ops)
    /\ RecordedInRun
    /\ \E m \in Range(searched.mailbox) \ Range(mailbox) :
          /\ m.uid \in searched.deleted
          /\ m.uid # cur.uid
          /\ MsgPair(m) \in recordedBefore \ LedgerPairs(files)


\* ---- C36 ----
\* only this run flags messages: none was flagged when the run searched
OnlyThisRunFlags == searched.deleted = {}

\* sequence number i refers to the message the search saw under it
SameMessage(i) ==
    /\ i \in DOMAIN mailbox
    /\ i \in DOMAIN searched.mailbox
    /\ mailbox[i] = searched.mailbox[i]

\* C36: provided only this run flags messages as \Deleted, the EXPUNGEs of
\* the run leave every sequence number not yet processed on the message the
\* search returned under it, so every fetch of the run addresses that
\* message.
C36_SequenceNumbersStable ==
    (pc \in MessageStates /\ OnlyThisRunFlags) =>
        /\ \A k \in 2..Len(todo) : SameMessage(todo[k])
        /\ pc \in {"fetch_uid", "fetch_header", "fetch_body"} => SameMessage(cur.msg_id)
        /\ cur.uid # <<>> => cur.uid = searched.mailbox[cur.msg_id].uid

\* two messages of the run were expunged and the fetch of the third, the
\* lowest sequence number, is next
C36_Witness ==
    /\ pc = "fetch_uid"
    /\ OnlyThisRunFlags
    /\ Len(searched.mailbox) = 3
    /\ Len(mailbox) = 1
    /\ cur.msg_id = 1


\* ---- C37 ----
\* attachments of the message were attempted, none was written and none was
\* blocked by policy, and the outcome is "error"
NothingWritten ==
    /\ pc = "returned"
    /\ "WALK" \in Range(ops)
    /\ cur.written = 0
    /\ cur.failed > 0
    /\ cur.blocked = 0
    /\ ret = "error"

\* C37: when attachments of a message were attempted and none could be
\* written (outcome "error"), the identifier of the message is not recorded
\* in the ledger and the message is not archived.
C37_FailedDownloadNotRecorded ==
    NothingWritten =>
        /\ "SAVE" \notin Range(ops)
        /\ CurPair \notin LedgerPairs(files)
        /\ Range(ops) \cap ArchiveCommands = {}


\* ---- C38 ----
\* the step is a whole call of archive_message
ArchiveCalled == pc = "archive" /\ pc' = "returned" /\ "COPY" \in Range(ops')

\* the COPY of the call returned OK
CopiedOK == cur'.archive_resp # <<>> /\ cur'.archive_resp[1] = "OK"

\* C38: a call of archive_message flags the message \Deleted and expunges
\* only if its COPY returned OK; after a failed COPY the call has issued
\* neither STORE nor EXPUNGE, and the message is in the mailbox with its
\* flags as they were.
C38_DeleteOnlyAfterCopy ==
    [][ArchiveCalled =>
          /\ (Range(ops') \cap {"STORE", "EXPUNGE"} # {}) => CopiedOK
          /\ (mailbox' # mailbox \/ deleted' # deleted) => CopiedOK
          /\ ~CopiedOK =>
                /\ mailbox' = mailbox
                /\ deleted' = deleted
                /\ \E i \in DOMAIN mailbox' : mailbox'[i].uid = cur.uid]_vars

\* a call whose COPY returned NO: the message is still in INBOX, unflagged
C38_Witness ==
    /\ pc = "returned"
    /\ cur.archive_resp = <<"NO">>
    /\ "COPY" \in Range(ops)
    /\ "STORE" \notin Range(ops)
    /\ \E i \in DOMAIN mailbox : mailbox[i].uid = cur.uid
    /\ cur.uid \notin deleted


\* ---- C39 ----
\* C39: a dry run leaves the dedup ledger unchanged: at every point of
\* process(dry_run=True) the ledger holds no identifier it did not hold when
\* the run began its pass.
C39_DryRunLeavesLedger ==
    (pc # "idle" /\ dry_run) => LedgerPairs(files) \subseteq ledgerAtStart

\* ---- C40 ----
SetPasswordDone == probe.op = "set_password"

PlainPassed ==
    \E k \in DOMAIN probe.result.stored : probe.result.stored[k].value = "plain"

EncryptedStoreFailed ==
    \E k \in DOMAIN probe.result.stored :
        probe.result.stored[k].value = "encrypted" /\ ~probe.result.stored[k].ok

\* C40: in --set-password mode the plaintext password is handed to
\* keyring.set_password only if encrypt_password failed; when encryption
\* succeeds the encrypted value is the only one handed over, and the
\* command returns 1 if storing it fails.
C40_PlaintextOnlyIfEncryptionFailed ==
    SetPasswordDone =>
        /\ PlainPassed => ~probe.encrypt_ok
        /\ probe.encrypt_ok =>
            \A k \in DOMAIN probe.result.stored :
                probe.result.stored[k].value = "encrypted"
        /\ EncryptedStoreFailed => probe.result.status = 1

\* what the code does keep: plaintext is handed over only after the
\* encrypted path raised, and the command returns 1 when the last store
\* attempted failed or none was attempted
SetPasswordOtherParts ==
    SetPasswordDone =>
        /\ PlainPassed => (~probe.encrypt_ok \/ EncryptedStoreFailed)
        /\ probe.result.status = 0 <=>
              /\ probe.result.stored # <<>>
              /\ probe.result.stored[Len(probe.result.stored)].ok

=============================================================================
